---- MODULE Spec2Model ----
(***************************************************************************)
(* Verification model of the playoff Monte Carlo simulator and the         *)
(* ensemble predictor of superhuman/models.py.                             *)
(*                                                                         *)
(* Team codes are integers whose order is the alphabetical order of the    *)
(* three-letter codes of config.ALL_TEAMS, with the placeholder "BYE" at   *)
(* its alphabetical place (after BUF, before CAR).  Division names are     *)
(* integers in the alphabetical order of the names.  Points are integers.  *)
(***************************************************************************)
EXTENDS Integers, Sequences, FiniteSets, TLC

VARIABLES
    conf_teams,      \* seeding: the teams of one conference (list of TeamSeason)
    sim_pts,         \* seeding: noisy projected points of this trial (dict team -> pts)
    playoff_teams,   \* seeding: list returned by _select_playoff_teams / handed to _seed_conference
    matchups,        \* seeding: list returned by _seed_conference
    seed_pc,         \* seeding: position of the caller
    rng,             \* state of the process-wide generator behind np.random
    series,          \* _simulate_series: its arguments and the simulator's settings
    prob_a,          \* _simulate_series: series-level probability of team_a, in ppm
    wins_a,          \* _simulate_series: games won by team_a
    wins_b,          \* _simulate_series: games won by team_b
    game,            \* _simulate_series: index of the next game
    series_winner,   \* _simulate_series: the returned team
    series_pc,       \* _simulate_series: position ("start", "loop", "done")
    win_dist,        \* _simulate_series: probability (millionths) of each score (wins_a, wins_b) of the loop
    teams,           \* simulate: the list of teams passed in
    strength_scores, \* simulate: dict team -> strength
    sim_cfg,         \* MonteCarloSimulator: n_sims, use_enhanced_model, series_predictor
    sims_done,       \* simulate: completed iterations of the trial loop
    round_adv,       \* simulate: team -> round -> count
    cup_wins,        \* simulate: team -> championship wins
    cup_final_counts,\* simulate: team -> championship-final appearances
    matchup_counts,  \* simulate: (higher, lower, conf) -> count
    matchup_wins,    \* simulate: (higher, lower, conf) -> wins of higher
    r2_tracker,      \* simulate: (a, b, conf) -> [count, a_wins]
    cf_tracker,      \* simulate: (a, b, conf) -> [count, a_wins]
    cup_final_tracker, \* simulate: (a, b) -> [count, a_wins]
    last_trial,      \* simulate: traces and cup winner of the latest trial
    dict_keys,       \* simulate: the keys of the matchup dicts, in insertion order
    trial_log,       \* simulate: the trials of this call, in the order they were aggregated
    run_results,     \* results returned by the calls of simulate made so far in this process
    sim_pc,          \* simulate: position ("trials", "returned")
    sub_models,      \* predict: per team, the outputs of the fitted sub-models (tenths)
    use_neural_network, \* EnsemblePredictor.use_neural_network
    monte_carlo_result, \* EnsemblePredictor.monte_carlo_result
    results,         \* predict: the list of PredictionResult
    pred_pc,         \* predict: position ("simulating", "ensemble_returned", "returned")
    superhuman,      \* SuperhumanPredictor and its EnsemblePredictor: is_trained, is_fitted, calls made
    bracket,         \* EnhancedMonteCarloSimulator.simulate_bracket: the caller's list, the winners, the position
    shared_predictor, \* playoff_series_model._series_predictor, the module-level instance
    simulators       \* the MonteCarloSimulator instances built so far in the process

seedVars == <<conf_teams, sim_pts, playoff_teams, matchups, seed_pc>>

seriesVars == <<series, prob_a, wins_a, wins_b, game, series_winner, series_pc, win_dist>>

simVars == <<teams, strength_scores, sim_cfg, sims_done, round_adv, cup_wins,
             cup_final_counts, matchup_counts, matchup_wins, r2_tracker, cf_tracker,
             cup_final_tracker, last_trial, dict_keys, trial_log, run_results, sim_pc>>

predVars == <<sub_models, use_neural_network, monte_carlo_result, results, pred_pc>>

sharedVars == <<shared_predictor, simulators>>

vars == <<seedVars, rng, seriesVars, simVars, predVars, superhuman, bracket, sharedVars>>

-----------------------------------------------------------------------------
(* Bounds of the model *)

MaxConfTeams == 9
MaxPts == 2
MaxSeed == 15
MaxSims == 3

-----------------------------------------------------------------------------
(* config.py: team codes, divisions, conferences *)

BYE == 4

Atlantic == 1
Central == 2
Metropolitan == 3
Pacific == 4
Unknown == 5
NoDivision == 0

CONFERENCES_East == [d \in {Atlantic, Metropolitan} |->
    IF d = Atlantic THEN {2, 3, 11, 13, 16, 21, 27, 28}
                    ELSE {5, 6, 17, 19, 20, 22, 23, 33}]

CONFERENCES_West == [d \in {Central, Pacific} |->
    IF d = Central THEN {8, 9, 10, 15, 18, 26, 29, 32}
                   ELSE {1, 7, 12, 14, 24, 25, 30, 31}]

get_team_division(team) ==
    IF \E d \in DOMAIN CONFERENCES_East : team \in CONFERENCES_East[d]
    THEN CHOOSE d \in DOMAIN CONFERENCES_East : team \in CONFERENCES_East[d]
    ELSE IF \E d \in DOMAIN CONFERENCES_West : team \in CONFERENCES_West[d]
    THEN CHOOSE d \in DOMAIN CONFERENCES_West : team \in CONFERENCES_West[d]
    ELSE Unknown

-----------------------------------------------------------------------------
(* Python list helpers *)

\* positions 1..n in the order of a stable sort, descending by key
RECURSIVE SortedPositions(_, _)
SortedPositions(n, keys) ==
    IF n = 0 THEN <<>>
    ELSE LET before == SortedPositions(n - 1, keys)
             k == Cardinality({p \in DOMAIN before : keys[before[p]] >= keys[n]})
         IN SubSeq(before, 1, k) \o <<n>> \o SubSeq(before, k + 1, Len(before))

\* list.sort(key=lambda t: -keys[t]): stable, descending by key
SortDesc(seq, keys) ==
    LET n == Len(seq)
        ks == SubSeq(keys, 1, n)
        pos == SortedPositions(n, ks)
    IN SubSeq([r \in 1..n |-> seq[pos[r]]], 1, n)

\* seq[:k]
Take(seq, k) == SubSeq(seq, 1, IF Len(seq) < k THEN Len(seq) ELSE k)

\* seq[k:]
Drop(seq, k) == SubSeq(seq, k + 1, Len(seq))

RECURSIVE Concat(_)
Concat(seqs) == IF seqs = <<>> THEN <<>> ELSE Head(seqs) \o Concat(Tail(seqs))

Range(seq) == {seq[i] : i \in DOMAIN seq}

TeamCodes(ts) == {ts[i].team : i \in DOMAIN ts}

\* t.division or get_team_division(t.team)
DivisionOf(t) == IF t.division # NoDivision THEN t.division ELSE get_team_division(t.team)

\* sim_pts.get(t.team, t.points)
Pts(t, pts_map) == IF t.team \in DOMAIN pts_map THEN pts_map[t.team] ELSE t.points

SortByPts(seq, pts_map) == SortDesc(seq, [i \in DOMAIN seq |-> Pts(seq[i], pts_map)])

RECURSIVE Dedup(_)
Dedup(seq) ==
    IF seq = <<>> THEN <<>>
    ELSE LET r == Dedup(SubSeq(seq, 1, Len(seq) - 1))
         IN IF seq[Len(seq)] \in Range(r) THEN r ELSE Append(r, seq[Len(seq)])

\* keys of the defaultdict "divisions", in insertion order
DivKeys(ts) == Dedup([i \in DOMAIN ts |-> DivisionOf(ts[i])])

\* slip: the per-division sort is left out
DivSorted_unsorted(ts, div, pts_map) ==
    SelectSeq(ts, LAMBDA t : DivisionOf(t) = div)

\* divisions[div] after the per-division sort
DivSorted(ts, div, pts_map) ==
    SortByPts(SelectSeq(ts, LAMBDA t : DivisionOf(t) = div), pts_map)

-----------------------------------------------------------------------------
(* MonteCarloSimulator._select_playoff_teams *)

\* slip: the wildcard pool starts at div_teams[2:] and overlaps the top 3
select_playoff_teams_overlap(ts, pts_map) ==
    LET keys == DivKeys(ts)
        tops == Concat([k \in DOMAIN keys |-> Take(DivSorted(ts, keys[k], pts_map), 3)])
        rest == Concat([k \in DOMAIN keys |-> Drop(DivSorted(ts, keys[k], pts_map), 2)])
    IN tops \o Take(SortByPts(rest, pts_map), 2)

select_playoff_teams(ts, pts_map) ==
    LET keys == DivKeys(ts)
        divisions == [k \in DOMAIN keys |-> DivSorted(ts, keys[k], pts_map)]
        tops == Concat([k \in DOMAIN keys |-> Take(divisions[k], 3)])
        rest == Concat([k \in DOMAIN keys |-> Drop(divisions[k], 3)])
    IN tops \o Take(SortByPts(rest, pts_map), 2)

(* MonteCarloSimulator._seed_conference_simple *)

\* slip: the list of codes is not padded to 8 entries
simple_codes_unpadded(ts, pts_map) ==
    LET sorted == SortByPts(ts, pts_map)
    IN SubSeq([i \in 1..Len(sorted) |-> sorted[i].team], 1, Len(sorted))

\* lines 798-805: the codes by descending points, padded with "BYE" to 8
simple_codes(ts, pts_map) ==
    LET sorted == SortByPts(ts, pts_map)
    IN SubSeq([i \in 1..(IF Len(sorted) < 8 THEN 8 ELSE Len(sorted)) |->
                  IF i <= Len(sorted) THEN sorted[i].team ELSE BYE],
              1, IF Len(sorted) < 8 THEN 8 ELSE Len(sorted))

\* lines 806-811 read codes[0] .. codes[7]: IndexError on a shorter list
seed_conference_simple_raises(ts, pts_map) == Len(simple_codes(ts, pts_map)) < 8

\* slip: the two slots of a matchup are exchanged
seed_conference_simple_reversed(ts, pts_map) ==
    LET codes == simple_codes(ts, pts_map)
    IN << <<codes[8], codes[1]>>, <<codes[7], codes[2]>>,
          <<codes[6], codes[3]>>, <<codes[5], codes[4]>> >>

seed_conference_simple(ts, pts_map) ==
    LET codes == simple_codes(ts, pts_map)
    IN << <<codes[1], codes[8]>>, <<codes[2], codes[7]>>,
          <<codes[3], codes[6]>>, <<codes[4], codes[5]>> >>

(* MonteCarloSimulator._seed_conference *)

\* slip: the division names in order of first appearance, not sorted
SortedDivNames_insertion(ts) == DivKeys(ts)

\* sorted(divisions.keys())
SortedDivNames(ts) ==
    LET names == {DivisionOf(ts[i]) : i \in DOMAIN ts}
    IN [k \in 1..Cardinality(names) |->
          CHOOSE d \in names : Cardinality({e \in names : e < d}) = k - 1]

seed_conference(ts, pts_map) ==
    LET div_names == SortedDivNames(ts)
    IN IF Len(div_names) # 2 THEN seed_conference_simple(ts, pts_map)
       ELSE
       LET div_a == DivSorted(ts, div_names[1], pts_map)
           div_b == DivSorted(ts, div_names[2], pts_map)
           div_a_winner == div_a[1]
           div_b_winner == div_b[1]
           div_a_divisional == Take(div_a, 3)
           div_b_divisional == Take(div_b, 3)
           wildcard_set == (TeamCodes(ts) \ TeamCodes(div_a_divisional))
                               \ TeamCodes(div_b_divisional)
           wildcards == SortByPts(SelectSeq(ts, LAMBDA t : t.team \in wildcard_set), pts_map)
       IN IF Len(div_a_divisional) < 3 \/ Len(div_b_divisional) < 3 \/ Len(wildcards) < 2
          THEN seed_conference_simple(ts, pts_map)
          ELSE
          LET a_first == Pts(div_a_winner, pts_map) >= Pts(div_b_winner, pts_map)
              seed1 == IF a_first THEN div_a_winner ELSE div_b_winner
              seed2 == IF a_first THEN div_b_winner ELSE div_a_winner
              seed1_div == IF a_first THEN div_a ELSE div_b
              seed2_div == IF a_first THEN div_b ELSE div_a
              wc1 == wildcards[1]
              wc2 == wildcards[2]
              s1_div == SelectSeq(seed1_div,
                          LAMBDA t : t.team # seed1.team /\ t.team \notin wildcard_set)
              s2_div == SelectSeq(seed2_div,
                          LAMBDA t : t.team # seed2.team /\ t.team \notin wildcard_set)
          IN IF Len(s1_div) < 2 \/ Len(s2_div) < 2
             THEN seed_conference_simple(ts, pts_map)
             ELSE << <<seed1.team, wc2.team>>, <<s1_div[1].team, s1_div[2].team>>,
                     <<seed2.team, wc1.team>>, <<s2_div[1].team, s2_div[2].team>> >>

\* _seed_conference raises: an index past the end of wildcards (line 774)
\* or of s1_div / s2_div (lines 789, 791), or a raise of the fallback
seed_conference_raises(ts, pts_map) ==
    LET div_names == SortedDivNames(ts)
    IN IF Len(div_names) # 2 THEN seed_conference_simple_raises(ts, pts_map)
       ELSE
       LET div_a == DivSorted(ts, div_names[1], pts_map)
           div_b == DivSorted(ts, div_names[2], pts_map)
           div_a_divisional == Take(div_a, 3)
           div_b_divisional == Take(div_b, 3)
           wildcard_set == (TeamCodes(ts) \ TeamCodes(div_a_divisional))
                               \ TeamCodes(div_b_divisional)
           wildcards == SelectSeq(ts, LAMBDA t : t.team \in wildcard_set)
       IN IF div_a = <<>> \/ div_b = <<>>
          THEN seed_conference_simple_raises(ts, pts_map)
          ELSE IF Len(div_a_divisional) < 3 \/ Len(div_b_divisional) < 3 \/ Len(wildcards) < 2
          THEN seed_conference_simple_raises(ts, pts_map)
          ELSE IF Len(wildcards) < 2 THEN TRUE
          ELSE
          LET a_first == Pts(div_a[1], pts_map) >= Pts(div_b[1], pts_map)
              seed1 == IF a_first THEN div_a[1] ELSE div_b[1]
              seed2 == IF a_first THEN div_b[1] ELSE div_a[1]
              s1_div == SelectSeq(IF a_first THEN div_a ELSE div_b,
                          LAMBDA t : t.team # seed1.team /\ t.team \notin wildcard_set)
              s2_div == SelectSeq(IF a_first THEN div_b ELSE div_a,
                          LAMBDA t : t.team # seed2.team /\ t.team \notin wildcard_set)
          IN IF Len(s1_div) < 2 \/ Len(s2_div) < 2
             THEN seed_conference_simple_raises(ts, pts_map)
             ELSE FALSE

-----------------------------------------------------------------------------
(* The random generator.  np.random is one process-wide generator: every   *)
(* draw reads its state and advances it.  The state is modelled as a       *)
(* number below 1000 advanced by a full-period congruential step.          *)

RngNext(s) == (21 * s + 7) % 1000

\* np.random.random(): a value of [0, 1), in millionths
RandomPpm(s) == s * 1000

\* np.random.normal(0, 0.5 * sqrt(remaining)): whole points; no spread when
\* no games remain
NormalNoise(s, remaining) == IF remaining = 0 THEN 0 ELSE ((s \div 7) % 5) - 2

-----------------------------------------------------------------------------
(* MonteCarloSimulator._simulate_series.  Probabilities are in millionths. *)

\* 1 / (1 + exp(-0.03 * diff)) in units of 1e-5, for the strength
\* differences of the model (multiples of 5 between -30 and 30)
LogisticTable ==
    <<
      25923, 26503, 27091, 27688, 28292, 28905, 29525, 30153,
      30789, 31432, 32082, 32739, 33403, 34074, 34751, 35434,
      36124, 36819, 37519, 38225, 38936, 39652, 40372, 41096,
      41824, 42556, 43291, 44029, 44769, 45512, 46257, 47004,
      47752, 48500, 49250, 50000, 50750, 51500, 52248, 52996,
      53743, 54488, 55231, 55971, 56709, 57444, 58176, 58904,
      59628, 60348, 61064, 61775, 62481, 63181, 63876, 64566,
      65249, 65926, 66597, 67261, 67918, 68568, 69211, 69847,
      70475, 71095, 71708, 72312, 72909, 73497, 74077
    >>

\* 1 / (1 + exp(-0.03 * diff)) in units of 1e-5, for whole diff in -35..35
Logistic(diff) == LogisticTable[diff + 36]

\* self.round_base_rates.get(round_num, 0.55), in units of 1e-5
round_base_rates(round_num) ==
    CASE round_num = 1 -> 59000 [] round_num = 2 -> 53000
      [] round_num = 3 -> 50000 [] round_num = 4 -> 53000 [] OTHER -> 55000

\* prob_a * 0.7 + parity_factor * 0.3
BasicProbA(strength_a, strength_b, round_num) ==
    7 * Logistic(strength_a - strength_b) + 3 * round_base_rates(round_num)

home_pattern == <<TRUE, TRUE, FALSE, FALSE, TRUE, FALSE, TRUE>>

Clip(x, lo, hi) == IF x < lo THEN lo ELSE IF x > hi THEN hi ELSE x

\* game_prob of the game with index "g" (0-based, as in the code)
GameProb(p, g) == Clip(p + (IF home_pattern[g + 1] THEN 40000 ELSE 0 - 20000), 150000, 850000)

\* slip: "or" in the loop condition
SeriesGoesOn_or(wa, wb) == wa < 4 \/ wb < 4

\* while wins_a < 4 and wins_b < 4
SeriesGoesOn(wa, wb) == wa < 4 /\ wb < 4

\* one iteration of the game loop
GameStep(p, wa, wb, g, r) ==
    LET a_wins == RandomPpm(r) < GameProb(p, g)
    IN [wins_a |-> IF a_wins THEN wa + 1 ELSE wa,
        wins_b |-> IF a_wins THEN wb ELSE wb + 1,
        game |-> g + 1,
        rng |-> RngNext(r)]

RECURSIVE PlayGames(_, _, _, _, _)
PlayGames(p, wa, wb, g, r) ==
    IF SeriesGoesOn(wa, wb)
    THEN LET st == GameStep(p, wa, wb, g, r)
         IN PlayGames(p, st.wins_a, st.wins_b, st.game, st.rng)
    ELSE [wins_a |-> wa, wins_b |-> wb, game |-> g, rng |-> r]

\* the scores (wins_a, wins_b) the loop can hold
Scores == {sc \in (0..4) \X (0..4) : sc # <<4, 4>>}

\* before the first game (line 921)
start_dist == [sc \in Scores |-> IF sc = <<0, 0>> THEN 1000000 ELSE 0]

\* the share gp (millionths) of the probability mass m
Share(m, gp) == ((m \div 1000) * gp) \div 1000 + ((m % 1000) * gp) \div 1000000

\* lines 924-932 over every score at once: the game with index "g" is played
\* from every score at which the loop goes on; team_a wins it with GameProb
dist_step(dist, p, g) ==
    [sc \in Scores |->
        (IF SeriesGoesOn(sc[1], sc[2]) THEN 0 ELSE dist[sc])
        + (IF sc[1] >= 1 /\ SeriesGoesOn(sc[1] - 1, sc[2])
           THEN Share(dist[<<sc[1] - 1, sc[2]>>], GameProb(p, g)) ELSE 0)
        + (IF sc[2] >= 1 /\ SeriesGoesOn(sc[1], sc[2] - 1)
           THEN dist[<<sc[1], sc[2] - 1>>] - Share(dist[<<sc[1], sc[2] - 1>>], GameProb(p, g))
           ELSE 0)]

\* the loop from game "g" to its end
RECURSIVE play_out(_, _, _)
play_out(dist, p, g) ==
    IF \E sc \in Scores : SeriesGoesOn(sc[1], sc[2]) /\ dist[sc] > 0
    THEN play_out(dist_step(dist, p, g), p, g + 1)
    ELSE dist

\* line 934: team_a is returned when wins_a == 4
WinProbA(dist) == dist[<<4, 0>>] + dist[<<4, 1>>] + dist[<<4, 2>>] + dist[<<4, 3>>]

\* probability (millionths) that the closed-form model returns team_a
basic_series_win_prob(strength_a, strength_b, round_num) ==
    WinProbA(play_out(start_dist, BasicProbA(strength_a, strength_b, round_num), 0))

\* PlayoffSeriesPredictor.round_parity_factor.get(round_num, 0), in percent
round_parity_factor(round_num) ==
    CASE round_num = 1 -> 0 [] round_num = 2 -> 5
      [] round_num = 3 -> 10 [] round_num = 4 -> 8 [] OTHER -> 0

\* PlayoffSeriesPredictor.base_win_prob.get(round_num, 0.55), in millionths
base_win_prob(round_num) ==
    CASE round_num = 1 -> 590000 [] round_num = 2 -> 530000
      [] round_num = 3 -> 500000 [] round_num = 4 -> 530000 [] OTHER -> 550000

\* slip: the adjusted probability is returned without the clip
predict_series_probability_unclipped(predictor, round_num) ==
    IF predictor.state = "unfitted" THEN base_win_prob(round_num)
    ELSE (predictor.raw * (100 - round_parity_factor(round_num))
             + 500000 * round_parity_factor(round_num)) \div 100

\* PlayoffSeriesPredictor.predict_series_probability; "raw" is the output of
\* the fitted logistic regression for the features of this series
predict_series_probability(predictor, round_num) ==
    IF predictor.state = "unfitted" THEN base_win_prob(round_num)
    ELSE Clip((predictor.raw * (100 - round_parity_factor(round_num))
                  + 500000 * round_parity_factor(round_num)) \div 100,
              250000, 750000)

\* the enhanced branch is taken and returns (no exception)
EnhancedDecides(cfg) ==
    /\ cfg.use_enhanced_model
    /\ cfg.series_predictor.state \in {"unfitted", "fitted"}

\* the whole call: [winner, rng, games]
simulate_series(team_a, team_b, strength_a, strength_b, round_num, cfg, r) ==
    IF EnhancedDecides(cfg)
    THEN LET prob_higher == predict_series_probability(cfg.series_predictor, round_num)
             higher == IF strength_a >= strength_b THEN team_a ELSE team_b
             lower == IF strength_a >= strength_b THEN team_b ELSE team_a
         IN [winner |-> IF RandomPpm(r) < prob_higher THEN higher ELSE lower,
             rng |-> RngNext(r)]
    ELSE LET end == PlayGames(BasicProbA(strength_a, strength_b, round_num), 0, 0, 0, r)
         IN [winner |-> IF end.wins_a = 4 THEN team_a ELSE team_b,
             rng |-> end.rng]

-----------------------------------------------------------------------------
(* EnhancedMonteCarloSimulator (playoff_series_model.py).  A team of the    *)
(* bracket is the tuple <<team, strength, experience>>.                     *)

\* EnhancedMonteCarloSimulator.simulate_series: one draw decides
enhanced_simulate_series(team_a, team_b, strength_a, strength_b, round_num, predictor, r) ==
    LET first == strength_a >= strength_b
        prob_higher_wins == predict_series_probability(predictor, round_num)
    IN [winner |-> IF RandomPpm(r) < prob_higher_wins
                   THEN (IF first THEN team_a ELSE team_b)
                   ELSE (IF first THEN team_b ELSE team_a),
        rng |-> RngNext(r)]

\* lines 327-330: the caller's list after the padding loop, which appends
\* ('BYE', 0, 0) to the list that was passed in
pad_bracket(pt) ==
    IF Len(pt) >= 8 THEN pt
    ELSE SubSeq([i \in 1..8 |-> IF i <= Len(pt) THEN pt[i] ELSE <<BYE, 0, 0>>], 1, 8)

\* lines 336-349 and 355-364: the series between the entries x and y
bracket_series(x, y, round_num, predictor, r) ==
    LET res == enhanced_simulate_series(x[1], y[1], x[2], y[2], round_num, predictor, r)
    IN [winner_data |-> IF res.winner = x[1] THEN x ELSE y, rng |-> res.rng]

\* lines 333-349: round 1 over the matchups from index k on
RECURSIVE bracket_round_one(_, _, _, _)
bracket_round_one(pt, k, predictor, r) ==
    IF k > 4 THEN [winners |-> <<>>, rng |-> r]
    ELSE LET res == IF pt[9 - k][1] = BYE THEN [winner_data |-> pt[k], rng |-> r]
                    ELSE bracket_series(pt[k], pt[9 - k], 1, predictor, r)
             rest == bracket_round_one(pt, k + 1, predictor, res.rng)
         IN [winners |-> <<res.winner_data>> \o rest.winners, rng |-> rest.rng]

\* lines 351-364: round 2, winner 0 against winner 3, winner 1 against winner 2
bracket_round_two(w, predictor, r) ==
    LET a == bracket_series(w[1], w[4], 2, predictor, r)
        b == bracket_series(w[2], w[3], 2, predictor, a.rng)
    IN [winners |-> <<a.winner_data, b.winner_data>>, rng |-> b.rng]

-----------------------------------------------------------------------------
(* MonteCarloSimulator._simulate_conference *)

\* strength_scores.get(team, 50)
StrengthOf(scores, team) == IF team \in DOMAIN scores THEN scores[team] ELSE 50

\* slip: a series is simulated also against the placeholder
RECURSIVE RoundOne_no_bye(_, _, _, _, _)
RoundOne_no_bye(ms, i, scores, cfg, r) ==
    IF i > Len(ms) THEN [winners |-> <<>>, rng |-> r]
    ELSE LET higher == ms[i][1]
             lower == ms[i][2]
             res == simulate_series(higher, lower, StrengthOf(scores, higher),
                                    StrengthOf(scores, lower), 1, cfg, r)
             rest == RoundOne_no_bye(ms, i + 1, scores, cfg, res.rng)
         IN [winners |-> <<res.winner>> \o rest.winners, rng |-> rest.rng]

\* round 1: the winners of the matchups from index i on, and the generator after them
RECURSIVE RoundOne(_, _, _, _, _)
RoundOne(ms, i, scores, cfg, r) ==
    IF i > Len(ms) THEN [winners |-> <<>>, rng |-> r]
    ELSE LET higher == ms[i][1]
             lower == ms[i][2]
             res == IF lower = BYE THEN [winner |-> higher, rng |-> r]
                    ELSE simulate_series(higher, lower, StrengthOf(scores, higher),
                                         StrengthOf(scores, lower), 1, cfg, r)
             rest == RoundOne(ms, i + 1, scores, cfg, res.rng)
         IN [winners |-> <<res.winner>> \o rest.winners, rng |-> rest.rng]

\* lines 821-871: the ConferenceTrace and the generator after the bracket
ConferenceResult(ms, w, a, b, cf) ==
    [trace |-> [r1_matchups |-> ms,
                r1_winners |-> w,
                r2_matchups |-> << <<w[1], w[2]>>, <<w[3], w[4]>> >>,
                r2_winners |-> <<a.winner, b.winner>>,
                conf_final_matchup |-> <<a.winner, b.winner>>,
                conf_champion |-> cf.winner],
     rng |-> cf.rng]

\* lines 859-869: the conference final between the round-2 winners a and b
ConferenceFinal(ms, w, a, b, scores, cfg) ==
    ConferenceResult(ms, w, a, b,
        simulate_series(a.winner, b.winner, StrengthOf(scores, a.winner),
                        StrengthOf(scores, b.winner), 3, cfg, b.rng))

\* slip: the second round-2 series is played by r1_winners[1] and r1_winners[3]
RoundTwoSecond_cross(ms, w, a, scores, cfg) ==
    ConferenceFinal(ms, w, a,
        simulate_series(w[2], w[4], StrengthOf(scores, w[2]), StrengthOf(scores, w[4]),
                        2, cfg, a.rng),
        scores, cfg)

\* lines 846-857, k = 2: r1_winners[2] against r1_winners[3]
RoundTwoSecond(ms, w, a, scores, cfg) ==
    ConferenceFinal(ms, w, a,
        simulate_series(w[3], w[4], StrengthOf(scores, w[3]), StrengthOf(scores, w[4]),
                        2, cfg, a.rng),
        scores, cfg)

\* lines 846-857, k = 0: r1_winners[0] against r1_winners[1]
RoundTwoFirst(ms, r1, scores, cfg) ==
    RoundTwoSecond(ms, r1.winners,
        simulate_series(r1.winners[1], r1.winners[2], StrengthOf(scores, r1.winners[1]),
                        StrengthOf(scores, r1.winners[2]), 2, cfg, r1.rng),
        scores, cfg)

\* lines 827-841: round 1 of the bracket ms
Bracket(ms, scores, cfg, r) == RoundTwoFirst(ms, RoundOne(ms, 1, scores, cfg, r), scores, cfg)

simulate_conference(field, scores, cfg, pts_map, r) ==
    Bracket(seed_conference(field, pts_map), scores, cfg, r)

\* _simulate_conference raises: the seeding raises, a matchup does not
\* unpack into (higher, lower) (line 828), or fewer than 4 first-round
\* winners exist when round 2 reads r1_winners[k], r1_winners[k+1] (line 847)
simulate_conference_raises(field, pts_map) ==
    IF seed_conference_raises(field, pts_map) THEN TRUE
    ELSE LET ms == seed_conference(field, pts_map)
         IN (\E i \in DOMAIN ms : Len(ms[i]) # 2) \/ Len(ms) < 4

-----------------------------------------------------------------------------
(* MonteCarloSimulator.simulate *)

GAMES_IN_SEASON == 82

\* MonteCarloSimulator._get_conference
get_conference(team) ==
    IF \E d \in DOMAIN CONFERENCES_East : team \in CONFERENCES_East[d] THEN "East"
    ELSE IF \E d \in DOMAIN CONFERENCES_West : team \in CONFERENCES_West[d] THEN "West"
    ELSE "East"

Max(x, y) == IF x > y THEN x ELSE y

remaining_games(t) ==
    IF t.games_played > 0 THEN Max(0, GAMES_IN_SEASON - t.games_played) ELSE GAMES_IN_SEASON

\* t.points + pace * remaining (the inputs of the model keep it whole)
projected_pts(t) ==
    IF t.games_played > 0
    THEN t.points + (t.points * remaining_games(t)) \div t.games_played
    ELSE 0

\* sim_pts of one iteration: one normal draw per team, in list order
RECURSIVE NoisyPoints(_, _, _)
NoisyPoints(ts, i, r) ==
    IF i > Len(ts) THEN [pts |-> <<>>, rng |-> r]
    ELSE LET rest == NoisyPoints(ts, i + 1, RngNext(r))
             v == projected_pts(ts[i]) + NormalNoise(r, remaining_games(ts[i]))
         IN [pts |-> rest.pts @@ (ts[i].team :> v), rng |-> rest.rng]

\* what one iteration of the loop produced
TrialResult(np, east_playoff, west_playoff, east, west, final) ==
    [sim_pts |-> np.pts,
     east_playoff |-> east_playoff,
     west_playoff |-> west_playoff,
     east_trace |-> east.trace,
     west_trace |-> west.trace,
     cup_winner |-> final.winner,
     rng |-> final.rng]

\* lines 544-561: the cup final between the conference champions
CupFinal(np, east_playoff, west_playoff, east, west, scores, cfg) ==
    TrialResult(np, east_playoff, west_playoff, east, west,
        simulate_series(east.trace.conf_champion, west.trace.conf_champion,
                        StrengthOf(scores, east.trace.conf_champion),
                        StrengthOf(scores, west.trace.conf_champion), 4, cfg, west.rng))

\* lines 502-504
WestBracket(np, east_playoff, west_playoff, east, scores, cfg) ==
    CupFinal(np, east_playoff, west_playoff, east,
             simulate_conference(west_playoff, scores, cfg, np.pts, east.rng), scores, cfg)

\* lines 499-501
EastBracket(np, east_playoff, west_playoff, scores, cfg) ==
    WestBracket(np, east_playoff, west_playoff,
                simulate_conference(east_playoff, scores, cfg, np.pts, np.rng), scores, cfg)

\* lines 469-470 and 495-496
PlayoffFields(ts, np, scores, cfg) ==
    EastBracket(np,
        select_playoff_teams(SelectSeq(ts, LAMBDA t : get_conference(t.team) = "East"), np.pts),
        select_playoff_teams(SelectSeq(ts, LAMBDA t : get_conference(t.team) = "West"), np.pts),
        scores, cfg)

\* lines 487-562: the tournament of one iteration of the loop
Trial(ts, scores, cfg, r) == PlayoffFields(ts, NoisyPoints(ts, 1, r), scores, cfg)

\* an iteration of the loop raises: one of the two conference brackets does
trial_raises(ts, r) ==
    LET np == NoisyPoints(ts, 1, r)
    IN \/ simulate_conference_raises(
              select_playoff_teams(SelectSeq(ts, LAMBDA t : get_conference(t.team) = "East"),
                                   np.pts), np.pts)
       \/ simulate_conference_raises(
              select_playoff_teams(SelectSeq(ts, LAMBDA t : get_conference(t.team) = "West"),
                                   np.pts), np.pts)

\* defaultdict(int): d[k]
Get(d, k) == IF k \in DOMAIN d THEN d[k] ELSE 0

\* defaultdict(int): d[k] += n
Inc(d, k, n) == IF k \in DOMAIN d THEN [d EXCEPT ![k] = @ + n] ELSE d @@ (k :> n)

RECURSIVE IncEach(_, _)
IncEach(d, ks) == IF ks = <<>> THEN d ELSE IncEach(Inc(d, Head(ks), 1), Tail(ks))

\* tuple(sorted([a, b]))
SortedPair(a, b) == IF a <= b THEN <<a, b>> ELSE <<b, a>>

\* defaultdict(lambda: {"count": 0, "a_wins": 0}): one recorded series
Track(d, k, won) ==
    IF k \in DOMAIN d
    THEN [d EXCEPT ![k] = [count |-> @.count + 1, a_wins |-> @.a_wins + won]]
    ELSE d @@ (k :> [count |-> 1, a_wins |-> won])

\* line 562: cup_wins[cup_winner] += 1
CupWinsAfter(d, tr) == Inc(d, tr.cup_winner, 1)

\* slip: the final appearance of the Western champion is not recorded
RoundAdvAfter_east_only(d, tr) ==
    LET key(seq, n) == [i \in DOMAIN seq |-> <<seq[i], n>>]
        step(dd, trace) ==
            Inc(IncEach(IncEach(dd, key(trace.r1_winners, 1)), key(trace.r2_winners, 2)),
                <<trace.conf_champion, 3>>, 1)
    IN Inc(step(step(d, tr.east_trace), tr.west_trace), <<tr.east_trace.conf_champion, 4>>, 1)

\* lines 507-515 and 550-551: round_adv after the two traces of a trial
RoundAdvAfter(d, tr) ==
    LET key(seq, n) == [i \in DOMAIN seq |-> <<seq[i], n>>]
        step(dd, trace) ==
            Inc(IncEach(IncEach(dd, key(trace.r1_winners, 1)), key(trace.r2_winners, 2)),
                <<trace.conf_champion, 3>>, 1)
        both == step(step(d, tr.east_trace), tr.west_trace)
    IN Inc(Inc(both, <<tr.east_trace.conf_champion, 4>>, 1),
           <<tr.west_trace.conf_champion, 4>>, 1)

\* lines 548-549
CupFinalCountsAfter(d, tr) ==
    Inc(Inc(d, tr.east_trace.conf_champion, 1), tr.west_trace.conf_champion, 1)

\* lines 518-520: matchup_counts after the two traces
MatchupCountsAfter(d, tr) ==
    LET key(trace, conf) == [i \in DOMAIN trace.r1_matchups |->
                                <<trace.r1_matchups[i][1], trace.r1_matchups[i][2], conf>>]
    IN IncEach(IncEach(d, key(tr.east_trace, "East")), key(tr.west_trace, "West"))

\* lines 521-522: matchup_wins after the two traces
MatchupWinsAfter(d, tr) ==
    LET won(trace) == SelectSeq(trace.r1_matchups, LAMBDA m : m[1] \in Range(trace.r1_winners))
        key(trace, conf) == [i \in DOMAIN won(trace) |->
                                <<won(trace)[i][1], won(trace)[i][2], conf>>]
    IN IncEach(IncEach(d, key(tr.east_trace, "East")), key(tr.west_trace, "West"))

\* lines 525-533: r2_tracker after the two traces
R2TrackerAfter(d, tr) ==
    LET one(dd, trace, conf, i) ==
            LET a == trace.r2_matchups[i][1]
                b == trace.r2_matchups[i][2]
                pair == SortedPair(a, b)
                won == Cardinality({j \in DOMAIN trace.r2_winners :
                           /\ trace.r2_winners[j] \in {a, b}
                           /\ trace.r2_winners[j] = pair[1]})
            IN Track(dd, <<pair[1], pair[2], conf>>, won)
        step(dd, trace, conf) == one(one(dd, trace, conf, 1), trace, conf, 2)
    IN step(step(d, tr.east_trace, "East"), tr.west_trace, "West")

\* lines 536-542: cf_tracker after the two traces
CfTrackerAfter(d, tr) ==
    LET step(dd, trace, conf) ==
            LET pair == SortedPair(trace.conf_final_matchup[1], trace.conf_final_matchup[2])
            IN Track(dd, <<pair[1], pair[2], conf>>,
                     IF trace.conf_champion = pair[1] THEN 1 ELSE 0)
    IN step(step(d, tr.east_trace, "East"), tr.west_trace, "West")

\* lines 565-568: cup_final_tracker after the final
CupFinalTrackerAfter(d, tr) ==
    LET pair == SortedPair(tr.east_trace.conf_champion, tr.west_trace.conf_champion)
    IN Track(d, pair, IF tr.cup_winner = pair[1] THEN 1 ELSE 0)

\* a probability count / n_sims, kept as the pair <<count, n_sims>>
Frac(count, n) == <<count, n>>

\* lines 570-583 and 613-618: the probabilities of the returned MonteCarloResult
ResultOf(ts, n_sims, wins, adv, finals) ==
    [cup_probabilities |-> [c \in DOMAIN wins |-> Frac(wins[c], n_sims)],
     round_advancement |-> [c \in TeamCodes(ts) |->
         [r1 |-> Frac(Get(adv, <<c, 1>>), n_sims),
          r2 |-> Frac(Get(adv, <<c, 2>>), n_sims),
          r3 |-> Frac(Get(adv, <<c, 3>>), n_sims),
          r4 |-> Frac(Get(adv, <<c, 4>>), n_sims),
          cup |-> Frac(Get(wins, c), n_sims)]],
     conf_final_appearance_probs |-> [c \in TeamCodes(ts) |-> Frac(Get(adv, <<c, 2>>), n_sims)],
     cup_final_probs |-> [c \in DOMAIN finals |-> Frac(finals[c], n_sims)]]

\* the matchup dicts before the first trial: no key
NoKeys ==
    [matchup_counts |-> <<>>, r2_tracker |-> <<>>, cf_tracker |-> <<>>,
     cup_final_tracker |-> <<>>]

\* lines 518-519: the keys of the first-round matchups of a trace
R1Keys(trace, conf) ==
    SubSeq([i \in 1..Len(trace.r1_matchups) |->
               <<trace.r1_matchups[i][1], trace.r1_matchups[i][2], conf>>],
           1, Len(trace.r1_matchups))

\* lines 525-527: the keys of the round-2 matchups of a trace
R2Keys(trace, conf) ==
    SubSeq([i \in 1..Len(trace.r2_matchups) |->
               SortedPair(trace.r2_matchups[i][1], trace.r2_matchups[i][2]) \o <<conf>>],
           1, Len(trace.r2_matchups))

\* lines 538-540: the key of the conference final of a trace
CfKey(trace, conf) ==
    SortedPair(trace.conf_final_matchup[1], trace.conf_final_matchup[2]) \o <<conf>>

\* a dict keeps its keys in insertion order: the keys a trial adds come after
\* the keys already there, the Eastern trace before the Western
DictKeysAfter(k, tr) ==
    [matchup_counts |-> Dedup(k.matchup_counts \o R1Keys(tr.east_trace, "East")
                                  \o R1Keys(tr.west_trace, "West")),
     r2_tracker |-> Dedup(k.r2_tracker \o R2Keys(tr.east_trace, "East")
                              \o R2Keys(tr.west_trace, "West")),
     cf_tracker |-> Dedup(k.cf_tracker \o <<CfKey(tr.east_trace, "East"),
                                            CfKey(tr.west_trace, "West")>>),
     cup_final_tracker |-> Dedup(Append(k.cup_final_tracker,
                              SortedPair(tr.east_trace.conf_champion,
                                         tr.west_trace.conf_champion)))]

\* round(num / den, 3), in thousandths
Round3(num, den) == (2000 * num + den) \div (2 * den)

\* sorted(d.items(), key=lambda x: -x[1]): the keys by descending count,
\* keys of equal count in the order of the dict
ItemsByCount(keys, count) == SortDesc(keys, [i \in DOMAIN keys |-> count[keys[i]]])

\* slip: no minimum count
TrackerList_unfiltered(keys, d, n_sims, pct, conf) ==
    LET kept == SelectSeq(ItemsByCount(keys, [k \in DOMAIN d |-> d[k].count]),
                    LAMBDA k : conf = "All" \/ k[3] = conf)
    IN SubSeq([i \in 1..Len(kept) |->
                  <<kept[i][1], kept[i][2], Round3(d[kept[i]].a_wins, d[kept[i]].count),
                    Round3(d[kept[i]].count, n_sims)>>],
              1, Len(kept))

\* lines 620-643: the list of one tracker, for one conference or ("All") for
\* the cup final; pct * count >= n_sims is count >= n_sims * 0.05 (or 0.01)
TrackerList(keys, d, n_sims, pct, conf) ==
    LET kept == SelectSeq(ItemsByCount(keys, [k \in DOMAIN d |-> d[k].count]),
                    LAMBDA k : /\ pct * d[k].count >= n_sims
                               /\ (conf = "All" \/ k[3] = conf))
    IN SubSeq([i \in 1..Len(kept) |->
                  <<kept[i][1], kept[i][2], Round3(d[kept[i]].a_wins, d[kept[i]].count),
                    Round3(d[kept[i]].count, n_sims)>>],
              1, Len(kept))

\* line 592: the key with its two teams in alphabetical order
PairKey(k) == IF k[1] < k[2] THEN k ELSE <<k[2], k[1], k[3]>>

\* lines 591-596: pair_counts, keys in insertion order
pair_counts(keys, counts) ==
    LET pairs == Dedup(SubSeq([i \in 1..Len(keys) |-> PairKey(keys[i])], 1, Len(keys)))
        flip(pk) == <<pk[2], pk[1], pk[3]>>
    IN [keys |-> pairs,
        count |-> [pk \in Range(pairs) |->
                     Get(counts, pk) + (IF pk[1] = pk[2] THEN 0 ELSE Get(counts, flip(pk)))]]

\* slip: the wins of the flipped key are credited to the same team
pair_a_wins_unflipped(counts, wins, pk) ==
    LET flip == <<pk[2], pk[1], pk[3]>>
    IN (IF pk \in DOMAIN counts THEN Get(wins, pk) ELSE 0)
       + (IF pk[1] # pk[2] /\ flip \in DOMAIN counts THEN Get(wins, flip) ELSE 0)

\* lines 594-596: pair_a_wins of one pair
pair_a_wins(counts, wins, pk) ==
    LET flip == <<pk[2], pk[1], pk[3]>>
    IN (IF pk \in DOMAIN counts THEN Get(wins, pk) ELSE 0)
       + (IF pk[1] # pk[2] /\ flip \in DOMAIN counts
          THEN counts[flip] - Get(wins, flip) ELSE 0)

\* lines 599-611: the items from index i on, for one conference
RECURSIVE select_projected(_, _, _, _, _, _, _)
select_projected(items, i, pc, counts, wins, conf, chosen) ==
    IF i > Len(items) THEN chosen
    ELSE LET a == items[i][1]
             b == items[i][2]
             seen == UNION {{chosen[j][1], chosen[j][2]} : j \in DOMAIN chosen}
             count == pc.count[items[i]]
             a_wins == pair_a_wins(counts, wins, items[i])
         IN IF items[i][3] # conf \/ Len(chosen) >= 4 \/ a \in seen \/ b \in seen
            THEN select_projected(items, i + 1, pc, counts, wins, conf, chosen)
            ELSE select_projected(items, i + 1, pc, counts, wins, conf,
                     Append(chosen, IF 2 * a_wins >= count
                                    THEN <<a, b, Round3(a_wins, count)>>
                                    ELSE <<b, a, Round3(count - a_wins, count)>>))

\* lines 585-611: projected_matchups
projected_matchups(keys, counts, wins) ==
    LET pc == pair_counts(keys, counts)
        items == ItemsByCount(pc.keys, pc.count)
    IN [conf \in {"East", "West"} |->
          select_projected(items, 1, pc, counts, wins, conf, <<>>)]

\* lines 585-643: the matchup lists of the returned MonteCarloResult
MatchupListsOf(n_sims, k, counts, wins, r2, cf, cup) ==
    [projected_matchups |-> projected_matchups(k.matchup_counts, counts, wins),
     r2_matchups |-> [conf \in {"East", "West"} |->
                        TrackerList(k.r2_tracker, r2, n_sims, 20, conf)],
     conf_final_matchups |-> [conf \in {"East", "West"} |->
                        TrackerList(k.cf_tracker, cf, n_sims, 20, conf)],
     cup_final_matchups |-> TrackerList(k.cup_final_tracker, cup, n_sims, 100, "All")]

\* the counters of simulate before the first trial
NoTrials ==
    [keys |-> NoKeys, round_adv |-> <<>>, cup_wins |-> <<>>, cup_final_counts |-> <<>>,
     matchup_counts |-> <<>>, matchup_wins |-> <<>>, r2_tracker |-> <<>>,
     cf_tracker |-> <<>>, cup_final_tracker |-> <<>>]

\* lines 506-568: the counters after one more trial
AggregateTrial(acc, tr) ==
    [keys |-> DictKeysAfter(acc.keys, tr),
     round_adv |-> RoundAdvAfter(acc.round_adv, tr),
     cup_wins |-> CupWinsAfter(acc.cup_wins, tr),
     cup_final_counts |-> CupFinalCountsAfter(acc.cup_final_counts, tr),
     matchup_counts |-> MatchupCountsAfter(acc.matchup_counts, tr),
     matchup_wins |-> MatchupWinsAfter(acc.matchup_wins, tr),
     r2_tracker |-> R2TrackerAfter(acc.r2_tracker, tr),
     cf_tracker |-> CfTrackerAfter(acc.cf_tracker, tr),
     cup_final_tracker |-> CupFinalTrackerAfter(acc.cup_final_tracker, tr)]

\* the counters after the trials lo..hi of log are aggregated one after the
\* other in the order of the log (evaluated half by half)
RECURSIVE AggregateOver(_, _, _, _)
AggregateOver(acc, log, lo, hi) ==
    IF lo > hi THEN acc
    ELSE IF lo = hi THEN AggregateTrial(acc, log[lo])
    ELSE AggregateOver(AggregateOver(acc, log, lo, (lo + hi) \div 2),
                       log, ((lo + hi) \div 2) + 1, hi)

\* the counters after the trials of log from index i on
AggregateFrom(acc, log, i) == AggregateOver(acc, log, i, Len(log))

\* the result of simulate for the trials of log aggregated in that order
AggregateResult(ts, n_sims, log) ==
    LET acc == AggregateFrom(NoTrials, log, 1)
    IN ResultOf(ts, n_sims, acc.cup_wins, acc.round_adv, acc.cup_final_counts)
       @@ MatchupListsOf(n_sims, acc.keys, acc.matchup_counts, acc.matchup_wins,
                         acc.r2_tracker, acc.cf_tracker, acc.cup_final_tracker)

\* lines 571-643 raise ZeroDivisionError: a division by n_sims = 0 or by a
\* recorded count of 0
result_raises(ts, n_sims, wins, finals, counts, r2, cf, cup) ==
    \/ n_sims = 0 /\ (ts # <<>> \/ DOMAIN wins # {} \/ DOMAIN finals # {})
    \/ \E k \in DOMAIN counts : counts[k] = 0
    \/ \E k \in DOMAIN r2 : 20 * r2[k].count >= n_sims /\ r2[k].count = 0
    \/ \E k \in DOMAIN cf : 20 * cf[k].count >= n_sims /\ cf[k].count = 0
    \/ \E k \in DOMAIN cup : 100 * cup[k].count >= n_sims /\ cup[k].count = 0

-----------------------------------------------------------------------------
(* EnsemblePredictor.predict and SuperhumanPredictor.predict                *)
(* The outputs of the fitted sub-models (playoff classifier, gradient       *)
(* boosting, neural network) are inputs, in tenths.  A probability is the   *)
(* pair <<numerator, denominator>>; confidence bounds are in units of 1e-7. *)

Min(x, y) == IF x < y THEN x ELSE y

RECURSIVE SumSeq(_)
SumSeq(seq) == IF seq = <<>> THEN 0 ELSE Head(seq) + SumSeq(Tail(seq))

\* mc_probs.get(team, 0.0) as a count out of n_sims
McCount(mc, team) ==
    IF team \in DOMAIN mc.cup_probabilities THEN mc.cup_probabilities[team][1] ELSE 0

\* slip: the blend without the playoff gate
GatedProb_ungated(sub, mc_count, n_sims, use_nn) ==
    (IF use_nn THEN 3 * sub.gb * n_sims + 3 * sub.nn * n_sims + 40 * mc_count
     ELSE 4 * sub.gb * n_sims + 60 * mc_count)
        * 10

\* lines 1071-1089: gated_prob of one team, in units of 1 / (1000 * n_sims)
GatedProb(sub, mc_count, n_sims, use_nn) ==
    (IF use_nn THEN 3 * sub.gb * n_sims + 3 * sub.nn * n_sims + 40 * mc_count
     ELSE 4 * sub.gb * n_sims + 60 * mc_count)
        * Min(10, sub.playoff + 1)

\* lines 1094-1100: normalized_cup_probs
Normalize(raw, n) ==
    [i \in 1..n |-> IF SumSeq(raw) > 0 THEN <<raw[i], SumSeq(raw)>> ELSE <<1, 32>>]

\* a probability in units of 1e-7, rounded down
ToUnits(p) ==
    ((p[1] * 10000) \div p[2]) * 1000 + (((p[1] * 10000) % p[2]) * 1000) \div p[2]

RECURSIVE ISqrtIn(_, _, _)
ISqrtIn(x, lo, hi) ==
    IF lo >= hi THEN lo
    ELSE LET mid == (lo + hi + 1) \div 2
         IN IF mid * mid <= x THEN ISqrtIn(x, mid, hi) ELSE ISqrtIn(x, lo, mid - 1)

ISqrt(x) == ISqrtIn(x, 0, 46340)

\* the mean and the 1.645-sigma half width of Beta(p*n + 1, (1-p)*n + 1)
BetaSpread(P, n) ==
    LET m == P + ((10000000 - 2 * P) \div (n + 2))
        v == (m \div 1000) * (10000 - (m \div 1000))
        var == (v \div (n + 3)) * 10000 + (((v % (n + 3)) * 10000) \div (n + 3))
    IN [mean |-> m, half |-> ((1645 * ISqrt(var)) \div 1000) * 10]

\* _calculate_ci with n = 10000 and confidence 0.90: the 5% and 95%
\* quantiles of Beta(p*n + 1, (1-p)*n + 1).  At p = 0 the distribution is
\* Beta(1, n+1), whose quantile q is 1 - (1-q)^(1/(n+1)); at p = 1 it is
\* Beta(n+1, 1), whose quantile q is q^(1/(n+1)).  In between the quantiles
\* are taken from the normal approximation of the distribution.
calculate_ci(p) ==
    IF p[1] = 0 THEN <<51, 2994>>
    ELSE IF p[1] = p[2] THEN <<9997005, 9999948>>
    ELSE LET b == BetaSpread(ToUnits(p), 10000)
         IN <<Max(0, b.mean - b.half), Min(10000000, b.mean + b.half)>>

\* _classify_tier_percentile: the rank is the first position of the value
\* in the strengths sorted from the highest
classify_tier_percentile(strength, all_strengths) ==
    LET sorted_strengths == SortDesc(all_strengths, all_strengths)
        rank == CHOOSE k \in DOMAIN sorted_strengths :
                    /\ sorted_strengths[k] = strength
                    /\ \A j \in 1..(k - 1) : sorted_strengths[j] # strength
    IN IF rank <= 4 THEN "Elite" ELSE IF rank <= 12 THEN "Contender"
       ELSE IF rank <= 20 THEN "Bubble" ELSE "Longshot"

\* lines 1106-1130: the PredictionResult of the team at position i
ResultAt(ts, scores, subs, mc, probs, strength_values, i) ==
    [team |-> ts[i].team,
     composite_strength |-> scores[ts[i].team],
     strength_rank |-> 0,
     playoff_probability |-> subs[i].playoff,
     conference_final_probability |->
         IF ts[i].team \in DOMAIN mc.conf_final_appearance_probs
         THEN mc.conf_final_appearance_probs[ts[i].team] ELSE <<0, 1>>,
     cup_final_probability |->
         IF ts[i].team \in DOMAIN mc.cup_final_probs
         THEN mc.cup_final_probs[ts[i].team] ELSE <<0, 1>>,
     cup_win_probability |-> probs[i],
     cup_prob_lower |-> calculate_ci(probs[i])[1],
     cup_prob_upper |-> calculate_ci(probs[i])[2],
     tier |-> classify_tier_percentile(scores[ts[i].team], strength_values)]

\* slip: ranks counted from 0
AddRankings_from_zero(rs) ==
    LET n == Len(rs)
        sorted == SortDesc(rs, [i \in 1..n |-> rs[i].composite_strength])
    IN SubSeq([k \in 1..n |-> [sorted[k] EXCEPT !.strength_rank = k - 1]], 1, n)

\* lines 1132-1135: sort by strength, highest first, and number the results
AddRankings(rs) ==
    LET n == Len(rs)
        sorted == SortDesc(rs, [i \in 1..n |-> rs[i].composite_strength])
    IN SubSeq([k \in 1..n |-> [sorted[k] EXCEPT !.strength_rank = k]], 1, n)

\* lines 1102-1130, given the normalized probabilities
ResultsFrom(ts, scores, subs, mc, probs, strength_values) ==
    AddRankings(SubSeq([i \in 1..Len(ts) |->
                           ResultAt(ts, scores, subs, mc, probs, strength_values, i)],
                       1, Len(ts)))

\* lines 1068-1100, given the gated probabilities
NormalizedFrom(ts, scores, subs, mc, raw) ==
    ResultsFrom(ts, scores, subs, mc, SubSeq(Normalize(raw, Len(ts)), 1, Len(ts)),
                SubSeq([i \in 1..Len(ts) |-> scores[ts[i].team]], 1, Len(ts)))

\* EnsemblePredictor.predict after the Monte Carlo run "mc"
ensemble_predict(ts, scores, subs, use_nn, n_sims, mc) ==
    NormalizedFrom(ts, scores, subs, mc,
        SubSeq([i \in 1..Len(ts) |->
                   GatedProb(subs[i], McCount(mc, ts[i].team), n_sims, use_nn)],
               1, Len(ts)))

\* predictor.py line 76: results.sort(key=lambda r: -r.cup_win_probability);
\* the probabilities of one call share their denominator
SortByCupProbability(rs) ==
    SortDesc(rs, [i \in 1..Len(rs) |-> rs[i].cup_win_probability[1]])

-----------------------------------------------------------------------------
(* Training: SuperhumanPredictor.train and EnsemblePredictor.fit *)

\* models.py lines 988-1012: the fit calls of EnsemblePredictor.fit, in order
fit_calls(use_nn) ==
    <<"feature_engineer", "weight_optimizer", "playoff_classifier", "cup_predictor">>
        \o (IF use_nn THEN <<"neural_predictor">> ELSE <<>>)
        \o <<"cup_calibrator">>

\* slip: predict trains on every call
needs_training_always(sh) == TRUE

\* predictor.py line 66: if not self.is_trained
needs_training(sh) == ~sh.is_trained

\* models.py line 1042: if not self.is_fitted: raise RuntimeError
fit_guard_raises(sh) == ~sh.is_fitted

\* predictor.py lines 44-48 and models.py lines 973-974: a new instance
NewPredictor ==
    [is_trained |-> FALSE, is_fitted |-> FALSE, fits_returned |-> <<>>, caller |-> "none",
     train_calls |-> 0, trainings |-> 0, predict_calls |-> 0, guard_raises |-> 0]

\* an instance whose training has completed, inside SuperhumanPredictor.predict
TrainedPredictor(use_nn) ==
    [is_trained |-> TRUE, is_fitted |-> TRUE, fits_returned |-> fit_calls(use_nn),
     caller |-> "superhuman", train_calls |-> 1, trainings |-> 1, predict_calls |-> 1,
     guard_raises |-> 0]

-----------------------------------------------------------------------------
(* Seeding of one conference: the inputs the checks range over *)

\* team codes of the Eastern conference, alternating Atlantic / Metropolitan
SeedCodes == <<2, 5, 3, 6, 11, 17, 13, 19, 16, 20, 21, 22>>

\* division labels carried by the TeamSeason records: a block of k teams in
\* one division and the rest in another, the league map (empty label), three
\* divisions, or a single division
DivisionLabels(n) ==
    {[i \in 1..n |-> IF i <= k THEN d[1] ELSE d[2]] :
        k \in 0..n, d \in {<<Atlantic, Metropolitan>>, <<Metropolitan, Atlantic>>}}
    \cup {[i \in 1..n |-> NoDivision]}
    \cup {[i \in 1..n |-> ((i - 1) % 3) + 1]}
    \cup {[i \in 1..n |-> IF i <= 6 THEN Atlantic ELSE IF i = 7 THEN Central ELSE Metropolitan]}

ConferenceLists ==
    UNION {{[i \in 1..n |-> [team |-> SeedCodes[i], division |-> lab[i], points |-> 0]] :
              lab \in DivisionLabels(n)} : n \in 0..MaxConfTeams}

\* point values by standing: non-increasing, ties included
Standings(n) ==
    LET cuts == {c \in [1..(MaxPts - 1) -> 0..n] : \A j \in 1..(MaxPts - 2) : c[j] <= c[j + 1]}
    IN {[i \in 1..n |-> 1 + Cardinality({j \in 1..(MaxPts - 1) : i <= c[j]})] : c \in cuts}

\* where the team at list position i stands: list in standing order, in
\* reverse standing order, or even standings first and odd standings after
Placements(n) ==
    {[i \in 1..n |-> i],
     [i \in 1..n |-> n + 1 - i],
     [i \in 1..n |-> IF i <= n \div 2 THEN 2 * i ELSE 2 * (i - n \div 2) - 1]}

PointMaps(ts) ==
    LET n == Len(ts)
    IN {[c \in TeamCodes(ts) |-> v[pl[CHOOSE i \in 1..n : ts[i].team = c]]] :
          v \in Standings(n), pl \in Placements(n)}

SeedIdle ==
    /\ conf_teams = <<>>
    /\ sim_pts = <<>>
    /\ playoff_teams = <<>>
    /\ matchups = <<>>
    /\ seed_pc = "off"

SeriesIdle ==
    /\ series = <<>>
    /\ prob_a = 0
    /\ wins_a = 0
    /\ wins_b = 0
    /\ game = 0
    /\ series_winner = 0
    /\ series_pc = "off"
    /\ win_dist = <<>>

NoCounters ==
    /\ sims_done = 0
    /\ round_adv = <<>>
    /\ cup_wins = <<>>
    /\ cup_final_counts = <<>>
    /\ matchup_counts = <<>>
    /\ matchup_wins = <<>>
    /\ r2_tracker = <<>>
    /\ cf_tracker = <<>>
    /\ cup_final_tracker = <<>>
    /\ last_trial = <<>>
    /\ dict_keys = NoKeys
    /\ trial_log = <<>>

SimIdle ==
    /\ teams = <<>>
    /\ strength_scores = <<>>
    /\ sim_cfg = <<>>
    /\ NoCounters
    /\ run_results = <<>>
    /\ sim_pc = "off"

\* playoff_series_model.py line 380: _series_predictor = None at import;
\* created and fit_calls count the instances created and the calls of fit,
\* raised_at is the number of the simulator whose initialisation first raised
NoSharedPredictor == [state |-> "None", created |-> 0, fit_calls |-> 0, raised_at |-> 0]

SharedIdle ==
    /\ shared_predictor = NoSharedPredictor
    /\ simulators = <<>>

PredIdle ==
    /\ superhuman = <<>>
    /\ sub_models = <<>>
    /\ use_neural_network = FALSE
    /\ monte_carlo_result = <<>>
    /\ results = <<>>
    /\ pred_pc = "off"

-----------------------------------------------------------------------------
(* Specification of the seeding of one conference *)

SeedInit ==
    /\ conf_teams \in ConferenceLists
    /\ sim_pts \in PointMaps(conf_teams)
    /\ playoff_teams = <<>>
    /\ matchups = <<>>
    /\ seed_pc = "start"
    /\ rng = 0
    /\ SeriesIdle
    /\ SimIdle
    /\ PredIdle
    /\ bracket = <<>>
    /\ SharedIdle

\* simulate, lines 495-496: the playoff field of the conference
SelectPlayoffTeams ==
    /\ seed_pc = "start"
    /\ playoff_teams' = select_playoff_teams(conf_teams, sim_pts)
    /\ seed_pc' = "selected"
    /\ UNCHANGED <<conf_teams, sim_pts, matchups, rng, seriesVars, superhuman, simVars, predVars, bracket, sharedVars>>

\* _simulate_conference, line 825: the first-round bracket of the field
SeedConference ==
    /\ seed_pc = "selected"
    /\ matchups' = seed_conference(playoff_teams, sim_pts)
    /\ seed_pc' = "seeded"
    /\ UNCHANGED <<conf_teams, sim_pts, playoff_teams, rng, seriesVars, superhuman, simVars, predVars, bracket, sharedVars>>

\* _seed_conference called on a list that did not come from the selection
SeedConferenceDirect ==
    /\ seed_pc = "start"
    /\ playoff_teams' = conf_teams
    /\ matchups' = seed_conference(conf_teams, sim_pts)
    /\ seed_pc' = "seeded_direct"
    /\ UNCHANGED <<conf_teams, sim_pts, rng, seriesVars, superhuman, simVars, predVars, bracket, sharedVars>>

SeedNext == SelectPlayoffTeams \/ SeedConference \/ SeedConferenceDirect

SpecSeed == SeedInit /\ [][SeedNext]_vars

-----------------------------------------------------------------------------
(* The settings a MonteCarloSimulator can be built with (lines 399-428):   *)
(* enhanced model off, or a shared predictor that is unfitted (no series   *)
(* file), fitted, or whose prediction raises.                              *)

RawProbs == {0, 600000, 1000000}

Predictors ==
    {[state |-> "unfitted", raw |-> 0], [state |-> "raises", raw |-> 0]}
    \cup {[state |-> "fitted", raw |-> x] : x \in RawProbs}

Configs(sims) ==
    {[n_sims |-> n, use_enhanced_model |-> FALSE, series_predictor |-> [state |-> "None", raw |-> 0]] :
        n \in sims}
    \cup {[n_sims |-> n, use_enhanced_model |-> TRUE, series_predictor |-> sp] :
              n \in sims, sp \in Predictors}

-----------------------------------------------------------------------------
(* Specification of one call of _simulate_series, game by game *)

Strengths == {40, 50, 60, 70}

\* states of the generator at the call, spread over its range so that the
\* first draw falls on either side of every probability in use
SeriesSeeds == {(61 * s) % 1000 : s \in 0..MaxSeed}

SeriesInit ==
    /\ series \in [team_a : {2}, team_b : {5}, strength_a : Strengths,
                    strength_b : Strengths, round_num : 1..4]
    /\ sim_cfg \in Configs({1})
    /\ rng \in SeriesSeeds
    /\ prob_a = 0
    /\ wins_a = 0
    /\ wins_b = 0
    /\ game = 0
    /\ series_winner = 0
    /\ series_pc = "start"
    /\ win_dist = <<>>
    /\ SeedIdle
    /\ teams = <<>>
    /\ strength_scores = <<>>
    /\ NoCounters
    /\ run_results = <<>>
    /\ sim_pc = "off"
    /\ PredIdle
    /\ bracket = <<>>
    /\ SharedIdle

\* lines 885-905: the predictor decides the series with one draw
SeriesEnhanced ==
    /\ series_pc = "start"
    /\ EnhancedDecides(sim_cfg)
    /\ LET res == simulate_series(series.team_a, series.team_b, series.strength_a,
                                   series.strength_b, series.round_num, sim_cfg, rng)
       IN /\ series_winner' = res.winner
          /\ rng' = res.rng
    /\ series_pc' = "done_enhanced"
    /\ UNCHANGED <<series, prob_a, wins_a, wins_b, game, win_dist,
                   seedVars, superhuman, simVars, predVars, bracket, sharedVars>>

\* lines 909-922: the closed-form probability, before the first game
SeriesBasic ==
    /\ series_pc = "start"
    /\ ~EnhancedDecides(sim_cfg)
    /\ prob_a' = BasicProbA(series.strength_a, series.strength_b, series.round_num)
    /\ series_pc' = "loop"
    /\ UNCHANGED <<series, wins_a, wins_b, game, series_winner, rng, win_dist,
                   seedVars, superhuman, simVars, predVars, bracket, sharedVars>>

\* lines 924-932: one game
PlayGame ==
    /\ series_pc = "loop"
    /\ SeriesGoesOn(wins_a, wins_b)
    /\ LET st == GameStep(prob_a, wins_a, wins_b, game, rng)
       IN /\ wins_a' = st.wins_a
          /\ wins_b' = st.wins_b
          /\ game' = st.game
          /\ rng' = st.rng
    /\ UNCHANGED <<series, prob_a, series_winner, series_pc, win_dist,
                   seedVars, superhuman, simVars, predVars, bracket, sharedVars>>

\* line 934
SeriesReturn ==
    /\ series_pc = "loop"
    /\ ~SeriesGoesOn(wins_a, wins_b)
    /\ series_winner' = IF wins_a = 4 THEN series.team_a ELSE series.team_b
    /\ series_pc' = "done"
    /\ UNCHANGED <<series, prob_a, wins_a, wins_b, game, rng, win_dist,
                   seedVars, superhuman, simVars, predVars, bracket, sharedVars>>

SeriesNext == SeriesEnhanced \/ SeriesBasic \/ PlayGame \/ SeriesReturn

\* the call runs to its end: nothing else is scheduled against it
SpecSeries == SeriesInit /\ [][SeriesNext]_vars /\ WF_vars(SeriesNext)

-----------------------------------------------------------------------------
(* Specification of the closed-form series as a chain over its scores: the  *)
(* game loop of _simulate_series followed for every outcome of the draws,   *)
(* with the probability of each score.                                      *)

OddsInit ==
    /\ series \in [team_a : {2}, team_b : {5}, strength_a : Strengths,
                    strength_b : Strengths, round_num : 1..4]
    /\ sim_cfg \in {c \in Configs({1}) : ~EnhancedDecides(c)}
    /\ rng = 0
    /\ prob_a = 0
    /\ wins_a = 0
    /\ wins_b = 0
    /\ game = 0
    /\ series_winner = 0
    /\ series_pc = "odds_start"
    /\ win_dist = <<>>
    /\ SeedIdle
    /\ teams = <<>>
    /\ strength_scores = <<>>
    /\ NoCounters
    /\ run_results = <<>>
    /\ sim_pc = "off"
    /\ PredIdle
    /\ bracket = <<>>
    /\ SharedIdle

\* lines 909-922
OddsBasic ==
    /\ series_pc = "odds_start"
    /\ prob_a' = BasicProbA(series.strength_a, series.strength_b, series.round_num)
    /\ win_dist' = start_dist
    /\ series_pc' = "odds_loop"
    /\ UNCHANGED <<series, wins_a, wins_b, game, series_winner, rng,
                   seedVars, superhuman, simVars, predVars, bracket, sharedVars>>

\* lines 924-932: one more game wherever the loop goes on
OddsGame ==
    /\ series_pc = "odds_loop"
    /\ \E sc \in Scores : SeriesGoesOn(sc[1], sc[2]) /\ win_dist[sc] > 0
    /\ win_dist' = dist_step(win_dist, prob_a, game)
    /\ game' = game + 1
    /\ UNCHANGED <<series, prob_a, wins_a, wins_b, series_winner, series_pc, rng,
                   seedVars, superhuman, simVars, predVars, bracket, sharedVars>>

\* line 934: the loop has ended for every outcome
OddsReturn ==
    /\ series_pc = "odds_loop"
    /\ \A sc \in Scores : SeriesGoesOn(sc[1], sc[2]) => win_dist[sc] = 0
    /\ series_pc' = "odds_done"
    /\ UNCHANGED <<series, prob_a, wins_a, wins_b, game, series_winner, win_dist, rng,
                   seedVars, superhuman, simVars, predVars, bracket, sharedVars>>

OddsNext == OddsBasic \/ OddsGame \/ OddsReturn

SpecOdds == OddsInit /\ [][OddsNext]_vars

-----------------------------------------------------------------------------
(* Specification of EnhancedMonteCarloSimulator.simulate_bracket: the       *)
(* caller passes its own list, which the method reads and pads.             *)

MaxBracketTeams == 9

BracketOrder == <<2, 5, 3, 6, 11, 17, 13, 19, 16, 20>>

\* the caller's lists: up to MaxBracketTeams entries sorted by seed
BracketLists ==
    {[i \in 1..n |-> <<BracketOrder[i], 40 + 5 * (BracketOrder[i] % 5), BracketOrder[i] % 3>>] :
        n \in 0..MaxBracketTeams}

BracketInit ==
    /\ bracket \in [playoff_teams : BracketLists,
                     series_predictor : {sp \in Predictors : sp.state # "raises"},
                     r1_winners : {<<>>}, r2_winners : {<<>>}, conf_champ : {0},
                     pc : {"start"}]
    /\ rng \in SeriesSeeds
    /\ SeedIdle
    /\ SeriesIdle
    /\ SimIdle
    /\ PredIdle
    /\ SharedIdle

\* lines 327-330: the padding loop
BracketPad ==
    /\ bracket.pc = "start"
    /\ bracket' = [bracket EXCEPT !.playoff_teams = pad_bracket(@), !.pc = "round1"]
    /\ UNCHANGED <<rng, seedVars, seriesVars, simVars, predVars, superhuman, sharedVars>>

\* lines 332-349: round 1
BracketRoundOne ==
    /\ bracket.pc = "round1"
    /\ \E res \in {bracket_round_one(bracket.playoff_teams, 1, bracket.series_predictor, rng)} :
          /\ bracket' = [bracket EXCEPT !.r1_winners = res.winners, !.pc = "round2"]
          /\ rng' = res.rng
    /\ UNCHANGED <<seedVars, seriesVars, simVars, predVars, superhuman, sharedVars>>

\* lines 351-364: round 2
BracketRoundTwo ==
    /\ bracket.pc = "round2"
    /\ \E res \in {bracket_round_two(bracket.r1_winners, bracket.series_predictor, rng)} :
          /\ bracket' = [bracket EXCEPT !.r2_winners = res.winners, !.pc = "final"]
          /\ rng' = res.rng
    /\ UNCHANGED <<seedVars, seriesVars, simVars, predVars, superhuman, sharedVars>>

\* lines 366-376: the conference final; the champion is returned
BracketFinal ==
    /\ bracket.pc = "final"
    /\ \E res \in {bracket_series(bracket.r2_winners[1], bracket.r2_winners[2], 3,
                                   bracket.series_predictor, rng)} :
          /\ bracket' = [bracket EXCEPT !.conf_champ = res.winner_data[1], !.pc = "returned"]
          /\ rng' = res.rng
    /\ UNCHANGED <<seedVars, seriesVars, simVars, predVars, superhuman, sharedVars>>

BracketNext == BracketPad \/ BracketRoundOne \/ BracketRoundTwo \/ BracketFinal

SpecBracket == BracketInit /\ [][BracketNext]_vars

-----------------------------------------------------------------------------
(* Specification of simulate, called repeatedly in one process *)

MaxCalls == 2

EastOrder == <<2, 5, 3, 6, 11, 17, 13, 19, 16, 20>>

WestOrder == <<8, 1, 9, 7, 10, 12, 15, 14, 18, 24>>

GamesPlayedOf(code) == IF code % 5 = 0 THEN 82 ELSE IF code % 7 = 0 THEN 0 ELSE 41

PointsOf(code) == (IF GamesPlayedOf(code) = 82 THEN 2 ELSE 1) * (40 + ((code * 7) % 13))

TeamOf(code) ==
    [team |-> code, division |-> NoDivision, points |-> PointsOf(code),
     games_played |-> GamesPlayedOf(code)]

\* e Eastern teams, w Western teams, u teams (code 40) unknown to the league map
LeagueOf(e, w, u) ==
    [i \in 1..e |-> TeamOf(EastOrder[i])] \o [i \in 1..w |-> TeamOf(WestOrder[i])]
        \o [i \in 1..u |-> TeamOf(40)]

Leagues ==
    {LeagueOf(x[1], x[2], x[3]) :
        x \in {<<9, 9, 0>>, <<8, 8, 0>>, <<8, 9, 1>>, <<9, 0, 0>>, <<0, 9, 0>>,
                <<5, 3, 0>>, <<4, 4, 0>>, <<5, 7, 0>>, <<0, 0, 0>>}}

StrengthsOf(ts) == [c \in TeamCodes(ts) |-> 40 + 5 * (c % 5)]

SimInit ==
    /\ teams \in Leagues
    /\ strength_scores = StrengthsOf(teams)
    /\ sim_cfg \in Configs(1..MaxSims)
    /\ rng \in 0..MaxSeed
    /\ NoCounters
    /\ run_results = <<>>
    /\ sim_pc = "trials"
    /\ SeedIdle
    /\ SeriesIdle
    /\ PredIdle
    /\ bracket = <<>>
    /\ SharedIdle

\* lines 486-568: one iteration of the loop; an exception leaves simulate
RunTrial ==
    /\ sim_pc = "trials"
    /\ sims_done < sim_cfg.n_sims
    /\ IF trial_raises(teams, rng)
       THEN /\ sim_pc' = "raised"
            /\ UNCHANGED <<rng, last_trial, dict_keys, trial_log, round_adv, cup_wins, cup_final_counts,
                           matchup_counts, matchup_wins, r2_tracker, cf_tracker,
                           cup_final_tracker, sims_done>>
       ELSE /\ \E tr \in {Trial(teams, strength_scores, sim_cfg, rng)} :
                  /\ rng' = tr.rng
                  /\ last_trial' = tr
                  /\ dict_keys' = DictKeysAfter(dict_keys, tr)
                  /\ trial_log' = Append(trial_log, tr)
                  /\ round_adv' = RoundAdvAfter(round_adv, tr)
                  /\ cup_wins' = CupWinsAfter(cup_wins, tr)
                  /\ cup_final_counts' = CupFinalCountsAfter(cup_final_counts, tr)
                  /\ matchup_counts' = MatchupCountsAfter(matchup_counts, tr)
                  /\ matchup_wins' = MatchupWinsAfter(matchup_wins, tr)
                  /\ r2_tracker' = R2TrackerAfter(r2_tracker, tr)
                  /\ cf_tracker' = CfTrackerAfter(cf_tracker, tr)
                  /\ cup_final_tracker' = CupFinalTrackerAfter(cup_final_tracker, tr)
            /\ sims_done' = sims_done + 1
            /\ sim_pc' = sim_pc
    /\ UNCHANGED <<teams, strength_scores, sim_cfg, run_results, seedVars, superhuman, seriesVars, predVars, bracket, sharedVars>>

\* lines 570-655: the loop is over, the result is built and returned
ReturnResult ==
    /\ sim_pc = "trials"
    /\ sims_done = sim_cfg.n_sims
    /\ IF result_raises(teams, sim_cfg.n_sims, cup_wins, cup_final_counts, matchup_counts,
                        r2_tracker, cf_tracker, cup_final_tracker)
       THEN /\ sim_pc' = "raised"
            /\ run_results' = run_results
       ELSE /\ run_results' = Append(run_results,
                    ResultOf(teams, sim_cfg.n_sims, cup_wins, round_adv, cup_final_counts)
                    @@ MatchupListsOf(sim_cfg.n_sims, dict_keys, matchup_counts, matchup_wins,
                                      r2_tracker, cf_tracker, cup_final_tracker))
            /\ sim_pc' = "returned"
    /\ UNCHANGED <<teams, strength_scores, sim_cfg, sims_done, round_adv, cup_wins,
                   cup_final_counts, matchup_counts, matchup_wins, r2_tracker, cf_tracker,
                   cup_final_tracker, last_trial, dict_keys, trial_log, rng, seedVars, superhuman, seriesVars, predVars, bracket, sharedVars>>

\* lines 451-462: the caller calls simulate again with the same arguments;
\* the counters are local to the call, the generator is not
CallAgain ==
    /\ sim_pc = "returned"
    /\ Len(run_results) < MaxCalls
    /\ sims_done' = 0
    /\ round_adv' = <<>>
    /\ cup_wins' = <<>>
    /\ cup_final_counts' = <<>>
    /\ matchup_counts' = <<>>
    /\ matchup_wins' = <<>>
    /\ r2_tracker' = <<>>
    /\ cf_tracker' = <<>>
    /\ cup_final_tracker' = <<>>
    /\ last_trial' = <<>>
    /\ dict_keys' = NoKeys
    /\ trial_log' = <<>>
    /\ sim_pc' = "trials"
    /\ UNCHANGED <<teams, strength_scores, sim_cfg, run_results, rng, seedVars, superhuman, seriesVars, predVars, bracket, sharedVars>>

SimNext == RunTrial \/ ReturnResult \/ CallAgain

SpecSim == SimInit /\ [][SimNext]_vars

-----------------------------------------------------------------------------------------------------------------------------------------------------
(* Specification of one call of simulate with enough trials for the         *)
(* thresholds of the matchup lists (5% and 1% of the trials) to matter.     *)

\* numbers of trials: 1 in 20 and 1 in 100 are less than one trial
ListSims == {21, 40, 101}

ListLeagues == {LeagueOf(8, 8, 0), LeagueOf(9, 9, 0), LeagueOf(5, 3, 0)}

ListsInit ==
    /\ teams \in ListLeagues
    /\ strength_scores = StrengthsOf(teams)
    /\ sim_cfg \in {c \in Configs(ListSims) : ~c.use_enhanced_model}
    /\ rng \in {0, 3, 6, 9}
    /\ NoCounters
    /\ run_results = <<>>
    /\ sim_pc = "trials"
    /\ SeedIdle
    /\ SeriesIdle
    /\ PredIdle
    /\ bracket = <<>>
    /\ SharedIdle

ListsNext == RunTrial \/ ReturnResult

SpecLists == ListsInit /\ [][ListsNext]_vars

-----------------------------------------------------------------------------
(* Specification of SuperhumanPredictor.predict *)

FullEast == <<2, 5, 3, 6, 11, 17, 13, 19, 16, 20, 21, 22, 27, 23, 28, 33>>

FullWest == <<8, 1, 9, 7, 10, 12, 15, 14, 18, 24, 26, 25, 29, 30, 32, 31>>

PredictLeague(e, w) ==
    [i \in 1..e |-> TeamOf(FullEast[i])] \o [i \in 1..w |-> TeamOf(FullWest[i])]

PredictLeagues ==
    {PredictLeague(x[1], x[2]) :
        x \in {<<1, 0>>, <<1, 1>>, <<10, 10>>, <<11, 10>>, <<16, 16>>}}

\* composite strengths by list position: all different, all equal, equal
\* in pairs, or five teams level at the top
StrengthPatterns(ts) ==
    LET n == Len(ts)
    IN {[c \in TeamCodes(ts) |-> f[CHOOSE i \in 1..n : ts[i].team = c]] :
          f \in {[i \in 1..n |-> 40 + i],
                 [i \in 1..n |-> 50],
                 [i \in 1..n |-> 40 + (i \div 2)],
                 [i \in 1..n |-> IF i <= 5 THEN 75 ELSE 75 - i]}}

\* outputs of the sub-models by list position: all zero, spread over the
\* grid, or one favourite
SubModelPatterns(n) ==
    {[i \in 1..n |-> [playoff |-> 0, gb |-> 0, nn |-> 0]],
     [i \in 1..n |-> [playoff |-> (i * 3) % 11, gb |-> (i * 7) % 11, nn |-> (i * 5) % 11]],
     [i \in 1..n |-> IF i = 1 THEN [playoff |-> 10, gb |-> 10, nn |-> 10]
                              ELSE [playoff |-> 0, gb |-> 0, nn |-> 0]]}

PredictConfigs ==
    {c \in Configs({1, MaxSims}) :
        c.series_predictor \in {[state |-> "None", raw |-> 0], [state |-> "unfitted", raw |-> 0],
                                [state |-> "fitted", raw |-> 600000]}}

PredictInit ==
    /\ teams \in PredictLeagues
    /\ strength_scores \in StrengthPatterns(teams)
    /\ sub_models \in SubModelPatterns(Len(teams))
    /\ use_neural_network \in BOOLEAN
    /\ sim_cfg \in PredictConfigs
    /\ rng \in {x \in 0..MaxSeed : x % 4 = 0}
    /\ monte_carlo_result = <<>>
    /\ results = <<>>
    /\ pred_pc = "simulating"
    /\ NoCounters
    /\ run_results = <<>>
    /\ sim_pc = "trials"
    /\ SeedIdle
    /\ SeriesIdle
    /\ superhuman = TrainedPredictor(use_neural_network)
    /\ bracket = <<>>
    /\ SharedIdle

\* models.py lines 1066-1137: simulate has returned to EnsemblePredictor.predict,
\* which builds, ranks and returns its results
EnsemblePredict ==
    /\ pred_pc = "simulating"
    /\ sim_pc = "returned"
    /\ monte_carlo_result' = run_results[Len(run_results)]
    /\ results' = ensemble_predict(teams, strength_scores, sub_models, use_neural_network,
                                   sim_cfg.n_sims, run_results[Len(run_results)])
    /\ pred_pc' = "ensemble_returned"
    /\ UNCHANGED <<sub_models, use_neural_network, rng, seedVars, superhuman, seriesVars, simVars, bracket, sharedVars>>

\* predictor.py lines 76-78: sort by cup probability and return
SortAndReturn ==
    /\ pred_pc = "ensemble_returned"
    /\ superhuman.caller = "superhuman"
    /\ results' = SortByCupProbability(results)
    /\ pred_pc' = "returned"
    /\ UNCHANGED <<sub_models, use_neural_network, monte_carlo_result, rng,
                   seedVars, superhuman, seriesVars, simVars, bracket, sharedVars>>

\* predict runs simulate (lines 1063-1065 and 1166-1168) before it combines
PredictNext == RunTrial \/ ReturnResult \/ EnsemblePredict \/ SortAndReturn

SpecPredict == PredictInit /\ [][PredictNext]_vars

-----------------------------------------------------------------------------
(* Specification of training and prediction: calls of                       *)
(* SuperhumanPredictor.predict and of EnsemblePredictor.predict on one      *)
(* instance, one after the other.  A fit call may raise; the exception      *)
(* leaves fit, train and predict.                                           *)

MaxPredictCalls == 3

TrainInit ==
    /\ teams \in {PredictLeague(1, 0), PredictLeague(10, 10)}
    /\ strength_scores = StrengthsOf(teams)
    /\ sub_models \in SubModelPatterns(Len(teams))
    /\ use_neural_network \in BOOLEAN
    /\ sim_cfg \in PredictConfigs
    /\ rng = 0
    /\ monte_carlo_result = <<>>
    /\ results = <<>>
    /\ pred_pc = "idle"
    /\ superhuman = NewPredictor
    /\ bracket = <<>>
    /\ SharedIdle
    /\ NoCounters
    /\ run_results = <<>>
    /\ sim_pc = "off"
    /\ SeedIdle
    /\ SeriesIdle

\* no call is in progress on the instance
NoCallRunning ==
    \/ pred_pc \in {"idle", "returned", "raised"}
    \/ pred_pc = "ensemble_returned" /\ superhuman.caller = "direct"

\* predictor.py lines 64-67: SuperhumanPredictor.predict is called
PredictCall ==
    /\ NoCallRunning
    /\ superhuman.predict_calls < MaxPredictCalls
    /\ IF needs_training(superhuman)
       THEN /\ superhuman' = [superhuman EXCEPT !.caller = "superhuman",
                                                !.predict_calls = @ + 1,
                                                !.train_calls = @ + 1,
                                                !.fits_returned = <<>>]
            /\ pred_pc' = "fit"
       ELSE /\ superhuman' = [superhuman EXCEPT !.caller = "superhuman",
                                                !.predict_calls = @ + 1]
            /\ pred_pc' = "guard"
    /\ UNCHANGED <<sub_models, use_neural_network, monte_carlo_result, results, rng,
                   seedVars, seriesVars, simVars, bracket, sharedVars>>

\* models.py lines 988-1012: the next fit call of EnsemblePredictor.fit returns
FitCallReturns ==
    /\ pred_pc = "fit"
    /\ Len(superhuman.fits_returned) < Len(fit_calls(use_neural_network))
    /\ superhuman' = [superhuman EXCEPT !.fits_returned =
            Append(@, fit_calls(use_neural_network)[Len(@) + 1])]
    /\ UNCHANGED <<pred_pc, sub_models, use_neural_network, monte_carlo_result, results, rng,
                   seedVars, seriesVars, simVars, bracket, sharedVars>>

\* models.py lines 988-1012: the next fit call raises
FitCallRaises ==
    /\ pred_pc = "fit"
    /\ Len(superhuman.fits_returned) < Len(fit_calls(use_neural_network))
    /\ pred_pc' = "raised"
    /\ UNCHANGED <<superhuman, sub_models, use_neural_network, monte_carlo_result, results, rng,
                   seedVars, seriesVars, simVars, bracket, sharedVars>>

\* models.py lines 1014-1016: every fit call has returned
FitReturn ==
    /\ pred_pc = "fit"
    /\ Len(superhuman.fits_returned) = Len(fit_calls(use_neural_network))
    /\ superhuman' = [superhuman EXCEPT !.is_fitted = TRUE]
    /\ pred_pc' = "fit_returned"
    /\ UNCHANGED <<sub_models, use_neural_network, monte_carlo_result, results, rng,
                   seedVars, seriesVars, simVars, bracket, sharedVars>>

\* predictor.py lines 58-62 and 69-73: train returns, predict calls the ensemble
TrainReturn ==
    /\ pred_pc = "fit_returned"
    /\ superhuman' = [superhuman EXCEPT !.is_trained = TRUE, !.trainings = @ + 1]
    /\ pred_pc' = "guard"
    /\ UNCHANGED <<sub_models, use_neural_network, monte_carlo_result, results, rng,
                   seedVars, seriesVars, simVars, bracket, sharedVars>>

\* models.py line 1040: EnsemblePredictor.predict is called on the instance directly
EnsemblePredictCall ==
    /\ NoCallRunning
    /\ superhuman.predict_calls < MaxPredictCalls
    /\ superhuman' = [superhuman EXCEPT !.caller = "direct", !.predict_calls = @ + 1]
    /\ pred_pc' = "guard"
    /\ UNCHANGED <<sub_models, use_neural_network, monte_carlo_result, results, rng,
                   seedVars, seriesVars, simVars, bracket, sharedVars>>

\* models.py lines 1042-1066 and 451-462: the guard of EnsemblePredictor.predict,
\* then the entry of simulate
PredictGuard ==
    /\ pred_pc = "guard"
    /\ IF fit_guard_raises(superhuman)
       THEN /\ pred_pc' = "raised"
            /\ superhuman' = [superhuman EXCEPT !.guard_raises = @ + 1]
            /\ UNCHANGED <<sims_done, round_adv, cup_wins, cup_final_counts, matchup_counts,
                           matchup_wins, r2_tracker, cf_tracker, cup_final_tracker,
                           last_trial, dict_keys, trial_log, sim_pc>>
       ELSE /\ pred_pc' = "simulating"
            /\ superhuman' = superhuman
            /\ sims_done' = 0
            /\ round_adv' = <<>>
            /\ cup_wins' = <<>>
            /\ cup_final_counts' = <<>>
            /\ matchup_counts' = <<>>
            /\ matchup_wins' = <<>>
            /\ r2_tracker' = <<>>
            /\ cf_tracker' = <<>>
            /\ cup_final_tracker' = <<>>
            /\ last_trial' = <<>>
            /\ dict_keys' = NoKeys
            /\ trial_log' = <<>>
            /\ sim_pc' = "trials"
    /\ UNCHANGED <<teams, strength_scores, sim_cfg, run_results, sub_models, use_neural_network,
                   monte_carlo_result, results, rng, seedVars, seriesVars, bracket, sharedVars>>

TrainNext ==
    \/ PredictCall \/ FitCallReturns \/ FitCallRaises \/ FitReturn \/ TrainReturn
    \/ EnsemblePredictCall \/ PredictGuard
    \/ RunTrial \/ ReturnResult \/ EnsemblePredict \/ SortAndReturn

SpecTrain == TrainInit /\ [][TrainNext]_vars

-----------------------------------------------------------------------------------------------------------------------------------------------------
(* Specification of the two cup estimators: CupPredictor and                *)
(* NeuralNetworkPredictor are fitted by EnsemblePredictor.fit and asked for *)
(* their probabilities by EnsemblePredictor.predict.  Whether the training  *)
(* data has a usable feature column, how many cup winners it holds and      *)
(* whether the fitted model raises when asked are inputs.  A probability is *)
(* the pair <<numerator, denominator>>.                                     *)

\* models.py lines 203-213 and 266-284: a new estimator
NewEstimator == [is_fitted |-> FALSE, model_raises |-> FALSE]

\* models.py lines 215-245 and 286-330: fit returns without training when no
\* feature column is left or the cup winners are fewer than min_winners
estimator_fit(e, valid_cols, winners, min_winners, raises) ==
    IF valid_cols = 0 \/ winners < min_winners THEN e
    ELSE [is_fitted |-> TRUE, model_raises |-> raises]

\* models.py lines 247-255 and 332-344: predict_proba of an estimator whose
\* model, if fitted, gives the outputs (in tenths)
predict_proba(e, outputs) ==
    IF ~e.is_fitted THEN [i \in DOMAIN outputs |-> <<1, 32>>]
    ELSE [i \in DOMAIN outputs |-> <<outputs[i], 10>>]

EstimatorsInit ==
    /\ teams \in PredictLeagues
    /\ strength_scores = StrengthsOf(teams)
    /\ sub_models \in SubModelPatterns(Len(teams))
    /\ use_neural_network \in BOOLEAN
    /\ sim_cfg = [use_enhanced_model |-> FALSE,
                  series_predictor |-> [state |-> "None", raw |-> 0], n_sims |-> 1]
    /\ rng = 0
    /\ monte_carlo_result = <<>>
    /\ results = <<>>
    /\ pred_pc = "fit_cup"
    /\ superhuman = [cup_predictor |-> NewEstimator, neural_predictor |-> NewEstimator,
                     cup_probs_gb |-> <<>>, cup_probs_nn |-> <<>>]
    /\ bracket = <<>>
    /\ SharedIdle
    /\ NoCounters
    /\ run_results = <<>>
    /\ sim_pc = "off"
    /\ SeedIdle
    /\ SeriesIdle

\* models.py line 1003 (lines 215-245): self.cup_predictor.fit
CupPredictorFit ==
    /\ pred_pc = "fit_cup"
    /\ \E valid_cols \in 0..1, winners \in 1..2, raises \in BOOLEAN :
          superhuman' = [superhuman EXCEPT !.cup_predictor =
                             estimator_fit(@, valid_cols, winners, 2, raises)]
    /\ pred_pc' = IF use_neural_network THEN "fit_nn" ELSE "proba_cup"
    /\ UNCHANGED <<sub_models, use_neural_network, monte_carlo_result, results, rng,
                   seedVars, seriesVars, simVars, bracket, sharedVars>>

\* models.py lines 1006-1008 (lines 286-330): self.neural_predictor.fit
NeuralPredictorFit ==
    /\ pred_pc = "fit_nn"
    /\ \E valid_cols \in 0..1, winners \in 2..3, raises \in BOOLEAN :
          superhuman' = [superhuman EXCEPT !.neural_predictor =
                             estimator_fit(@, valid_cols, winners, 3, raises)]
    /\ pred_pc' = "proba_cup"
    /\ UNCHANGED <<sub_models, use_neural_network, monte_carlo_result, results, rng,
                   seedVars, seriesVars, simVars, bracket, sharedVars>>

\* models.py line 1053 (lines 247-255): self.cup_predictor.predict_proba; an
\* exception of the fitted model leaves predict
CupPredictProba ==
    /\ pred_pc = "proba_cup"
    /\ IF superhuman.cup_predictor.is_fitted /\ superhuman.cup_predictor.model_raises
       THEN /\ pred_pc' = "raised"
            /\ superhuman' = superhuman
       ELSE /\ pred_pc' = "proba_nn"
            /\ superhuman' = [superhuman EXCEPT !.cup_probs_gb =
                   predict_proba(superhuman.cup_predictor,
                                 [i \in DOMAIN sub_models |-> sub_models[i].gb])]
    /\ UNCHANGED <<sub_models, use_neural_network, monte_carlo_result, results, rng,
                   seedVars, seriesVars, simVars, bracket, sharedVars>>

\* models.py lines 1055-1059 (lines 332-344): self.neural_predictor.predict_proba,
\* or the tree estimates again when the neural network is not in use
NeuralPredictProba ==
    /\ pred_pc = "proba_nn"
    /\ IF ~use_neural_network
       THEN /\ pred_pc' = "estimated"
            /\ superhuman' = [superhuman EXCEPT !.cup_probs_nn = superhuman.cup_probs_gb]
       ELSE IF superhuman.neural_predictor.is_fitted
                  /\ superhuman.neural_predictor.model_raises
       THEN /\ pred_pc' = "raised"
            /\ superhuman' = superhuman
       ELSE /\ pred_pc' = "estimated"
            /\ superhuman' = [superhuman EXCEPT !.cup_probs_nn =
                   predict_proba(superhuman.neural_predictor,
                                 [i \in DOMAIN sub_models |-> sub_models[i].nn])]
    /\ UNCHANGED <<sub_models, use_neural_network, monte_carlo_result, results, rng,
                   seedVars, seriesVars, simVars, bracket, sharedVars>>

EstimatorsNext ==
    CupPredictorFit \/ NeuralPredictorFit \/ CupPredictProba \/ NeuralPredictProba

SpecEstimators == EstimatorsInit /\ [][EstimatorsNext]_vars

-----------------------------------------------------------------------------
(* Specification of the construction of MonteCarloSimulator instances in    *)
(* one process.  Whether creating the shared predictor raises, and whether  *)
(* its fit raises, finds no series data or trains, are inputs.              *)

MaxSimulators == 5

\* playoff_series_model.py lines 383-389: get_series_predictor; the global
\* is assigned before fit is called
get_series_predictor(sp, outcome, n) ==
    IF sp.state # "None" THEN [shared |-> sp, raises |-> FALSE]
    ELSE IF outcome = "create_raises"
    THEN [shared |-> [sp EXCEPT !.raised_at = IF @ = 0 THEN n ELSE @], raises |-> TRUE]
    ELSE IF outcome = "fit_raises"
    THEN [shared |-> [state |-> "unfitted", created |-> sp.created + 1,
                      fit_calls |-> sp.fit_calls + 1,
                      raised_at |-> IF sp.raised_at = 0 THEN n ELSE sp.raised_at],
          raises |-> TRUE]
    ELSE [shared |-> [state |-> IF outcome = "fitted" THEN "fitted" ELSE "unfitted",
                      created |-> sp.created + 1, fit_calls |-> sp.fit_calls + 1,
                      raised_at |-> sp.raised_at],
          raises |-> FALSE]

\* models.py lines 399-428: MonteCarloSimulator.__init__ and _init_series_predictor
NewSimulator ==
    /\ Len(simulators) < MaxSimulators
    /\ \E use_enhanced_model \in BOOLEAN,
          outcome \in {"create_raises", "fit_raises", "no_data", "fitted"} :
          IF ~use_enhanced_model
          THEN /\ simulators' = Append(simulators,
                      [use_enhanced_model |-> FALSE, series_predictor |-> "None"])
               /\ shared_predictor' = shared_predictor
          ELSE \E got \in {get_series_predictor(shared_predictor, outcome,
                                                 Len(simulators) + 1)} :
                  /\ shared_predictor' = got.shared
                  /\ simulators' = Append(simulators,
                         IF got.raises
                         THEN [use_enhanced_model |-> FALSE, series_predictor |-> "None"]
                         ELSE [use_enhanced_model |-> TRUE, series_predictor |-> "shared"])
    /\ UNCHANGED <<seedVars, rng, seriesVars, simVars, predVars, superhuman, bracket>>

\* models.py lines 884-886: the guard of the enhanced branch of _simulate_series
uses_enhanced(sim) == sim.use_enhanced_model /\ sim.series_predictor # "None"

SharedInit ==
    /\ SharedIdle
    /\ rng = 0
    /\ SeedIdle
    /\ SeriesIdle
    /\ SimIdle
    /\ PredIdle
    /\ bracket = <<>>

SpecShared == SharedInit /\ [][NewSimulator]_vars

-----
(* Claims about the seeding *)

RECURSIVE SumOver(_, _)
SumOver(S, d) ==
    IF S = {} THEN 0
    ELSE LET x == CHOOSE y \in S : TRUE IN Get(d, x) + SumOver(S \ {x}, d)

DivisionsOf(ts) == {DivisionOf(ts[i]) : i \in DOMAIN ts}

CountIn(ts, div) == Cardinality({i \in DOMAIN ts : DivisionOf(ts[i]) = div})

\* the team codes in the 8 slots of the bracket
Slots(m) == {m[i][j] : i \in 1..4, j \in 1..2}

\* the slots in ranking order: 1st .. 8th of a 1v8, 2v7, 3v6, 4v5 bracket
RankOrder(m) == <<m[1][1], m[2][1], m[3][1], m[4][1], m[4][2], m[3][2], m[2][2], m[1][2]>>

TwoFullDivisions(ts) ==
    /\ Cardinality(DivisionsOf(ts)) = 2
    /\ \A d \in DivisionsOf(ts) : CountIn(ts, d) >= 3
    /\ Len(ts) >= 8

\* C1: for a conference of exactly two divisions with at least 3 teams each
\* and at least 8 teams, with any points (ties included), the selection
\* returns 8 distinct teams of the conference and the 4 first-round matchups
\* hold each of these 8 teams exactly once, and no placeholder.
C1_SeedingCompleteness ==
    (TwoFullDivisions(conf_teams) /\ seed_pc \in {"selected", "seeded"}) =>
        /\ Len(playoff_teams) = 8
        /\ Cardinality(TeamCodes(playoff_teams)) = 8
        /\ TeamCodes(playoff_teams) \subseteq TeamCodes(conf_teams)
        /\ seed_pc = "seeded" =>
              /\ Len(matchups) = 4
              /\ \A i \in 1..4 : Len(matchups[i]) = 2
              /\ Cardinality(Slots(matchups)) = 8
              /\ Slots(matchups) = TeamCodes(playoff_teams)
              /\ BYE \notin Slots(matchups)

\* a seeded two-division conference in which the last direct qualifier of a
\* division and a wildcard of the same division are level on points
C1_Witness ==
    /\ seed_pc = "seeded"
    /\ TwoFullDivisions(conf_teams)
    /\ Len(conf_teams) > 8
    /\ \E i, j \in DOMAIN playoff_teams :
          /\ i <= 6 /\ j > 6
          /\ DivisionOf(playoff_teams[i]) = DivisionOf(playoff_teams[j])
          /\ sim_pts[playoff_teams[i].team] = sim_pts[playoff_teams[j].team]

\* the conditions under which the claim expects the simple seeding
FallbackInput(ts) ==
    \/ Cardinality(DivisionsOf(ts)) # 2
    \/ \E d \in DivisionsOf(ts) : CountIn(ts, d) < 3
    \/ Len(ts) - 6 < 2

SeedingDone == seed_pc \in {"seeded", "seeded_direct"}

\* the first k ranks are distinct teams of the list in non-increasing order of
\* points, and no team left out has more points than the last of them
RankedPrefix(m, ts, pts_map, k) ==
    LET r == RankOrder(m)
    IN /\ \A i \in 1..k : r[i] \in TeamCodes(ts)
       /\ Cardinality({r[i] : i \in 1..k}) = k
       /\ \A i \in 1..(k - 1) : pts_map[r[i]] >= pts_map[r[i + 1]]
       /\ \A c \in TeamCodes(ts) \ {r[i] : i \in 1..k} :
             k > 0 /\ pts_map[c] <= pts_map[r[k]]

\* the number of direct qualifiers: up to 3 of every division
DirectCount(ts) ==
    SumOver(DivisionsOf(ts), [d \in DivisionsOf(ts) |-> Min(3, CountIn(ts, d))])

\* the teams of the selection after the direct qualifiers
WildcardsOf(ts, sel) == Drop(sel, DirectCount(ts))

\* C14: the selection holds, of every division, its (up to) three teams with
\* the most points, and then the (up to) two teams with the most points among
\* all other teams of the conference: no team of a division outside the
\* direct qualifiers has more points than one of them, no unselected team has
\* strictly more points than the lower wildcard, and no team is taken twice.
C14_SelectionRule ==
    seed_pc = "selected" =>
        LET direct == Take(playoff_teams, DirectCount(conf_teams))
            wild == WildcardsOf(conf_teams, playoff_teams)
            left == TeamCodes(conf_teams) \ TeamCodes(playoff_teams)
        IN /\ Len(playoff_teams) = Cardinality(TeamCodes(playoff_teams))
           /\ TeamCodes(playoff_teams) \subseteq TeamCodes(conf_teams)
           /\ Len(wild) = Min(2, Len(conf_teams) - DirectCount(conf_teams))
           /\ \A d \in DivisionsOf(conf_teams) :
                 /\ CountIn(direct, d) = Min(3, CountIn(conf_teams, d))
                 /\ \A i \in DOMAIN direct : \A j \in DOMAIN conf_teams :
                       (/\ DivisionOf(direct[i]) = d
                        /\ DivisionOf(conf_teams[j]) = d
                        /\ conf_teams[j].team \notin TeamCodes(direct)) =>
                           sim_pts[direct[i].team] >= sim_pts[conf_teams[j].team]
           /\ \A i \in DOMAIN wild : \A c \in left :
                 sim_pts[wild[i].team] >= sim_pts[c]
           /\ Len(wild) = 2 => sim_pts[wild[1].team] >= sim_pts[wild[2].team]

\* a two-division conference whose two wildcards both come from the division
\* listed second, with a team left out that is level with the lower wildcard
C14_Witness ==
    /\ seed_pc = "selected"
    /\ TwoFullDivisions(conf_teams)
    /\ LET wild == WildcardsOf(conf_teams, playoff_teams)
       IN /\ Len(wild) = 2
          /\ DivisionOf(wild[1]) = DivisionOf(wild[2])
          /\ DivisionOf(wild[1]) # DivisionOf(conf_teams[1])
          /\ \E c \in TeamCodes(conf_teams) \ TeamCodes(playoff_teams) :
                sim_pts[c] = sim_pts[wild[2].team]

\* the direct qualifiers of division d, in the order of the selection
DirectOf(ts, sel, d) ==
    SelectSeq(Take(sel, DirectCount(ts)), LAMBDA t : DivisionOf(t) = d)

\* C15: when the selected field has two divisions with 3 direct qualifiers
\* each and 2 wildcards, the bracket is, in this order, (seed 1, weaker
\* wildcard), (2nd, 3rd of seed 1's division), (seed 2, stronger wildcard),
\* (2nd, 3rd of seed 2's division): seed 1 is the division leader with more
\* points, on equal points the leader of the alphabetically first division;
\* the wildcards are the two teams the selection added as wildcards; 2nd and
\* 3rd are the other two direct qualifiers of the division, ties included.
C15_BracketOrder ==
    (seed_pc = "seeded" /\ ~FallbackInput(playoff_teams)) =>
        LET wild == WildcardsOf(conf_teams, playoff_teams)
            d1 == CHOOSE d \in DivisionsOf(playoff_teams) :
                      \A e \in DivisionsOf(playoff_teams) : d <= e
            d2 == CHOOSE d \in DivisionsOf(playoff_teams) : d # d1
            q1 == DirectOf(conf_teams, playoff_teams, d1)
            q2 == DirectOf(conf_teams, playoff_teams, d2)
            first == sim_pts[q1[1].team] >= sim_pts[q2[1].team]
            s1 == IF first THEN q1 ELSE q2
            s2 == IF first THEN q2 ELSE q1
        IN /\ Len(wild) = 2 /\ Len(q1) = 3 /\ Len(q2) = 3
           /\ sim_pts[wild[1].team] >= sim_pts[wild[2].team]
           /\ matchups = << <<s1[1].team, wild[2].team>>, <<s1[2].team, s1[3].team>>,
                            <<s2[1].team, wild[1].team>>, <<s2[2].team, s2[3].team>> >>

\* a seeded field whose division leaders are level on points, the division
\* listed first being the alphabetically second, and in which a wildcard is
\* level with the third direct qualifier of its own division
C15_Witness ==
    /\ seed_pc = "seeded"
    /\ ~FallbackInput(playoff_teams)
    /\ DivisionOf(playoff_teams[1]) = Metropolitan
    /\ sim_pts[matchups[1][1]] = sim_pts[matchups[3][1]]
    /\ Len(conf_teams) > 8
    /\ \E i \in 7..8 : \E j \in 1..6 :
          /\ DivisionOf(playoff_teams[i]) = DivisionOf(playoff_teams[j])
          /\ sim_pts[playoff_teams[i].team] = sim_pts[playoff_teams[j].team]
          /\ playoff_teams[j].team \in {matchups[2][2], matchups[4][2]}

\* C10 as stated: on a fallback input the 4 matchups pair the teams ranked
\* 1st-8th, 2nd-7th, 3rd-6th, 4th-5th by descending points, and a list split
\* over 3 divisions gives 8 distinct real teams.
C10_AsStated ==
    (SeedingDone /\ FallbackInput(playoff_teams)) =>
        /\ Len(matchups) = 4
        /\ RankedPrefix(matchups, playoff_teams, sim_pts, 8)
        /\ Cardinality(DivisionsOf(playoff_teams)) = 3 =>
              (Cardinality(Slots(matchups)) = 8 /\ BYE \notin Slots(matchups))

-----------------------------------------------------------------------------
(* Claims about the series loop *)

C9_LoopInv ==
    /\ series_pc = "loop" =>
          /\ wins_a + wins_b = game
          /\ wins_a <= 4 /\ wins_b <= 4
          /\ ~(wins_a = 4 /\ wins_b = 4)
          /\ (ENABLED PlayGame) => game + 1 <= Len(home_pattern)
    /\ series_pc = "done" =>
          /\ wins_a + wins_b = game
          /\ game \in 4..7
          /\ \/ wins_a = 4 /\ wins_b \in 0..3 /\ series_winner = series.team_a
             \/ wins_b = 4 /\ wins_a \in 0..3 /\ series_winner = series.team_b

\* C9: the game loop of the closed-form series always terminates; when it
\* does the winner holds exactly 4 wins, the loser 0 to 3, between 4 and 7
\* games were played, the returned team is the side with 4 wins, and every
\* game played indexes the 7-entry home pattern within its length.
C9_SeriesLoop == [](C9_LoopInv) /\ ((series_pc = "loop") ~> (series_pc = "done"))

\* a seven-game series won by team_b
C9_Witness ==
    /\ series_pc = "done"
    /\ game = 7
    /\ wins_b = 4
    /\ series_winner = series.team_b

\* C18 as stated: with no predictor, a predictor that was never fitted, or a
\* predictor whose call raises, the series is decided by the closed-form
\* game loop, never by the single draw of the enhanced branch.
C18_AsStated ==
    sim_cfg.series_predictor.state \in {"None", "unfitted", "raises"} =>
        /\ series_pc # "done_enhanced"
        /\ series_pc = "done" => game \in 4..7

\* what a step of the enhanced branch does
C19_Step ==
    (series_pc = "start" /\ series_pc' = "done_enhanced") =>
        LET p == predict_series_probability(sim_cfg.series_predictor, series.round_num)
            first == series.strength_a >= series.strength_b
            favorite == IF first THEN series.team_a ELSE series.team_b
            other == IF first THEN series.team_b ELSE series.team_a
        IN /\ p \in 250000..750000
           /\ \A rn \in 0..5 :
                 predict_series_probability(sim_cfg.series_predictor, rn) \in 250000..750000
           /\ rng' = RngNext(rng)
           /\ series_winner' = IF RandomPpm(rng) < p THEN favorite ELSE other
           /\ series_winner' \in {series.team_a, series.team_b}
           /\ game' = 0 /\ wins_a' = 0 /\ wins_b' = 0

\* C19: when the predictor decides a series, the favorite is the team with
\* the higher strength (team_a on equal strength), the probability used for
\* the favorite lies in [0.25, 0.75] for every round number, exactly one
\* random draw is made and no game is played, the favorite wins if the draw
\* is below the probability and the other team otherwise, and the winner is
\* one of the two teams of the call.
C19_SingleDraw == [][C19_Step]_vars

\* a fitted predictor whose raw output is clipped: the weaker team, passed
\* first, wins the series on a draw that is not below the probability
C19_Witness ==
    /\ series_pc = "done_enhanced"
    /\ sim_cfg.series_predictor.state = "fitted"
    /\ sim_cfg.series_predictor.raw \in {0, 1000000}
    /\ series.strength_a < series.strength_b
    /\ series_winner = series.team_a

\* C13: for team A (strength 60, first argument) against team B (strength
\* 40) in round 1 the series-level probability of the closed-form model is
\* 0.63, and the probability that the game-by-game simulation returns A is
\* within 0.02 of 0.63.
C13_AsStated ==
    (/\ series_pc = "odds_done"
     /\ series.strength_a = 60 /\ series.strength_b = 40 /\ series.round_num = 1) =>
        /\ prob_a \in 625000..635000
        /\ WinProbA(win_dist) \in 610000..650000

\* C17 as stated: in the closed-form model the probability that a team wins
\* the series is the same (up to 0.002 of rounding) whether the team is
\* passed as team_a or as team_b.
C17_AsStated ==
    series_pc = "odds_done" =>
        LET as_team_a == WinProbA(win_dist)
            as_team_b == 1000000 - basic_series_win_prob(series.strength_b,
                                       series.strength_a, series.round_num)
        IN as_team_a - as_team_b \in -2000..2000

\* the trial points and the division of the team with code c of the field
PointsOfCode(c) == Pts(CHOOSE t \in Range(playoff_teams) : t.team = c, sim_pts)

DivisionOfCode(c) == DivisionOf(CHOOSE t \in Range(playoff_teams) : t.team = c)

Seeded == seed_pc \in {"seeded", "seeded_direct"}

\* C29 as stated: in every first-round matchup (higher, lower) returned by
\* _seed_conference, on the normal and on the fallback path, the team in the
\* higher slot has at least as many trial points as the team in the lower
\* slot (a placeholder in the lower slot has no points).
C29_AsStated ==
    Seeded =>
        \A i \in DOMAIN matchups :
            matchups[i][2] # BYE =>
                /\ matchups[i][1] # BYE
                /\ PointsOfCode(matchups[i][1]) >= PointsOfCode(matchups[i][2])

\* C29: the same, except for the third matchup, seed 2 against the stronger
\* wildcard, when the wildcard comes from the division of seed 1: there the
\* wildcard may have more points than seed 2.
C29_PointsOrder ==
    Seeded =>
        \A i \in DOMAIN matchups :
            matchups[i][2] # BYE =>
                /\ matchups[i][1] # BYE
                /\ \/ PointsOfCode(matchups[i][1]) >= PointsOfCode(matchups[i][2])
                   \/ /\ i = 3
                      /\ Cardinality(DivisionsOf(playoff_teams)) = 2
                      /\ DivisionOfCode(matchups[3][2]) = DivisionOfCode(matchups[1][1])
                      /\ DivisionOfCode(matchups[3][2]) # DivisionOfCode(matchups[3][1])

\* a bracket from the selected field in which the stronger wildcard has more
\* points than seed 2, and the weaker wildcard fewer than seed 1
C29_Witness ==
    /\ seed_pc = "seeded"
    /\ Len(matchups) = 4
    /\ BYE \notin Slots(matchups)
    /\ PointsOfCode(matchups[3][2]) > PointsOfCode(matchups[3][1])
    /\ PointsOfCode(matchups[1][2]) < PointsOfCode(matchups[1][1])

-----------------------------------------------------------------------------
(* Claims about the shared series predictor *)

\* C30: all MonteCarloSimulator instances of a process use one source of
\* series probabilities: the shared predictor is created and fitted at most
\* once, and if that first initialisation raises, the simulator being built
\* and every simulator built afterwards end with use_enhanced_model = False
\* and decide their series with the closed-form model.
C30_AsStated ==
    /\ shared_predictor.created <= 1
    /\ shared_predictor.fit_calls <= 1
    /\ \A i \in DOMAIN simulators :
          simulators[i].series_predictor \in {"None", "shared"}
    /\ shared_predictor.raised_at > 0 =>
          \A i \in DOMAIN simulators :
              i >= shared_predictor.raised_at =>
                  /\ ~simulators[i].use_enhanced_model
                  /\ ~uses_enhanced(simulators[i])

-----------------------------------------------------------------------------
(* Claims about simulate *)

CountedTeams == {k[1] : k \in DOMAIN round_adv} \cup DOMAIN cup_wins \cup TeamCodes(teams)

\* C2: after every number of completed trials and for every team the
\* counters are ordered, round 1 >= round 2 >= conference final >= final
\* appearance >= championship, and so are the probabilities of every
\* returned result.
C2_AdvancementOrdered ==
    /\ \A c \in CountedTeams :
          /\ Get(round_adv, <<c, 1>>) >= Get(round_adv, <<c, 2>>)
          /\ Get(round_adv, <<c, 2>>) >= Get(round_adv, <<c, 3>>)
          /\ Get(round_adv, <<c, 3>>) >= Get(round_adv, <<c, 4>>)
          /\ Get(round_adv, <<c, 4>>) >= Get(cup_wins, c)
    /\ \A i \in DOMAIN run_results :
          \A c \in DOMAIN run_results[i].round_advancement :
              LET ra == run_results[i].round_advancement[c]
              IN /\ {ra.r1[2], ra.r2[2], ra.r3[2], ra.r4[2], ra.cup[2]} = {sim_cfg.n_sims}
                 /\ ra.r1[1] >= ra.r2[1]
                 /\ ra.r2[1] >= ra.r3[1]
                 /\ ra.r3[1] >= ra.r4[1]
                 /\ ra.r4[1] >= ra.cup[1]

\* two trials done and returned: a champion, and a team that won round 1
\* more often than round 2
C2_Witness ==
    /\ sim_pc = "returned"
    /\ sims_done = 2
    /\ \E c \in TeamCodes(teams) : Get(cup_wins, c) >= 1
    /\ \E c \in TeamCodes(teams) :
          /\ Get(round_adv, <<c, 1>>) > Get(round_adv, <<c, 2>>)
          /\ Get(round_adv, <<c, 2>>) >= 1

\* C3: for any list of input teams, after simulate the cup-win counters of
\* the input teams total exactly N, so their championship probabilities
\* sum to 1.
C3_AsStated ==
    sim_pc = "returned" =>
        /\ SumOver(TeamCodes(teams), cup_wins) = sim_cfg.n_sims
        /\ DOMAIN run_results[Len(run_results)].cup_probabilities \subseteq TeamCodes(teams)

\* C7: a second run of simulate in the same process, with the same inputs
\* and no reset of the random state in between, returns the same result as
\* the first.
C7_AsStated == Len(run_results) = 2 => run_results[1] = run_results[2]

\* the rounds of one conference trace follow from one another
TraceInOrder(t) ==
    /\ Len(t.r1_matchups) = 4 /\ Len(t.r1_winners) = 4
    /\ \A i \in 1..4 : t.r1_winners[i] \in Range(t.r1_matchups[i])
    /\ t.r2_matchups = << <<t.r1_winners[1], t.r1_winners[2]>>,
                          <<t.r1_winners[3], t.r1_winners[4]>> >>
    /\ Len(t.r2_winners) = 2
    /\ \A k \in 1..2 : t.r2_winners[k] \in Range(t.r2_matchups[k])
    /\ t.conf_final_matchup = <<t.r2_winners[1], t.r2_winners[2]>>
    /\ t.conf_champion \in Range(t.conf_final_matchup)

\* the teams that start on side A (matchups 0, 1) and on side B (matchups 2, 3)
SideA(t) == Range(t.r1_matchups[1]) \cup Range(t.r1_matchups[2])

SideB(t) == Range(t.r1_matchups[3]) \cup Range(t.r1_matchups[4])

\* C16: in the trace of each conference of every trial, round 2 pairs the
\* winners of matchups 0 and 1 and the winners of matchups 2 and 3, the
\* conference final pairs the two round-2 winners, the champion is one of
\* them, and every winner of a series is one of its two teams; a round-2
\* series is between two teams of one side, the final between the sides.
C16_BracketSides ==
    last_trial # <<>> =>
        \A t \in {last_trial.east_trace, last_trial.west_trace} :
            /\ TraceInOrder(t)
            /\ Range(t.r2_matchups[1]) \subseteq SideA(t)
            /\ Range(t.r2_matchups[2]) \subseteq SideB(t)
            /\ t.conf_final_matchup[1] \in SideA(t)
            /\ t.conf_final_matchup[2] \in SideB(t)

\* a trial with 8 distinct Eastern teams in which the lower team of a
\* first-round matchup of side B ends as champion of the conference
C16_Witness ==
    /\ last_trial # <<>>
    /\ LET t == last_trial.east_trace
       IN /\ Cardinality(SideA(t) \cup SideB(t)) = 8
          /\ BYE \notin SideA(t) \cup SideB(t)
          /\ t.conf_champion \in {t.r1_matchups[3][2], t.r1_matchups[4][2]}
          /\ t.r2_winners[1] # t.r1_matchups[1][1]

\* the orders in which n trials can be aggregated
Orders(n) == {p \in [1..n -> 1..n] : \A i, j \in 1..n : p[i] = p[j] => i = j}

\* C20 as stated: the result returned by simulate is the result of its
\* trials aggregated in any order, the projected first-round matchups and
\* the order of the matchup lists included.
C20_AsStated ==
    sim_pc = "returned" =>
        \A p \in Orders(Len(trial_log)) :
            AggregateResult(teams, sim_cfg.n_sims,
                            SubSeq([i \in 1..Len(trial_log) |-> trial_log[p[i]]],
                                   1, Len(trial_log)))
                = run_results[Len(run_results)]

\* C21 as stated: no step of a simulation changes what the caller passed
\* in: the teams list with its records and the strength scores of simulate,
\* and the playoff_teams list of simulate_bracket.
C21_Step ==
    /\ teams' = teams
    /\ strength_scores' = strength_scores
    /\ (bracket # <<>> /\ bracket' # <<>>) => bracket'.playoff_teams = bracket.playoff_teams

C21_AsStated == [][C21_Step]_vars

\* the result returned by the call of simulate that ended last
LastResult == run_results[Len(run_results)]

\* in how many trials of the call a and b met in round 1 of conference conf
PairSeen(a, b, conf) ==
    Get(matchup_counts, <<a, b, conf>>)
        + (IF a = b THEN 0 ELSE Get(matchup_counts, <<b, a, conf>>))

\* C22 as stated: every matchup of the projected first-round bracket was
\* seen, as an unordered pair, in at least half of the N trials.
C22_AsStated ==
    sim_pc = "returned" =>
        \A conf \in {"East", "West"} :
            \A i \in DOMAIN LastResult.projected_matchups[conf] :
                LET m == LastResult.projected_matchups[conf][i]
                IN 2 * PairSeen(m[1], m[2], conf) >= sim_cfg.n_sims

\* the trace of conference conf in a trial
TraceOf(tr, conf) == IF conf = "East" THEN tr.east_trace ELSE tr.west_trace

\* the first-round series of the logged trials between x and y in conference
\* conf, in either orientation: pairs <<trial, matchup index>>
Meetings(x, y, conf) ==
    {<<n, i>> \in (DOMAIN trial_log) \X (1..4) :
        Range(TraceOf(trial_log[n], conf).r1_matchups[i]) = {x, y}}

\* those of them that x won
MeetingsWon(x, y, conf) ==
    {mt \in Meetings(x, y, conf) : TraceOf(trial_log[mt[1]], conf).r1_winners[mt[2]] = x}

\* C23: in the projected first-round bracket of each conference at most 4
\* matchups are listed, no team is in two of them, and each listed matchup
\* (x, y, p) stands for all first-round series between x and y of the trials,
\* whichever of the two was recorded as the higher seed: x won at least half
\* of them and p is the share x won, rounded to 3 places.
C23_ProjectedBracket ==
    sim_pc = "returned" =>
        \A conf \in {"East", "West"} :
            LET L == LastResult.projected_matchups[conf]
            IN /\ Len(L) <= 4
               /\ \A i, j \in DOMAIN L :
                     i # j => {L[i][1], L[i][2]} \cap {L[j][1], L[j][2]} = {}
               /\ \A i \in DOMAIN L :
                     LET met == Cardinality(Meetings(L[i][1], L[i][2], conf))
                         won == Cardinality(MeetingsWon(L[i][1], L[i][2], conf))
                     IN /\ met >= 1
                        /\ 2 * won >= met
                        /\ L[i][3] = Round3(won, met)
                        /\ L[i][3] \in 500..1000

\* C23 as stated: as above, with the listed probability the exact share of
\* the meetings that the team named first won.
C23_AsStated ==
    /\ C23_ProjectedBracket
    /\ sim_pc = "returned" =>
          \A conf \in {"East", "West"} :
              \A i \in DOMAIN LastResult.projected_matchups[conf] :
                  LET m == LastResult.projected_matchups[conf][i]
                  IN m[3] * Cardinality(Meetings(m[1], m[2], conf))
                         = 1000 * Cardinality(MeetingsWon(m[1], m[2], conf))

\* a listed matchup that the trials recorded in both orientations, that is
\* listed with the alphabetically second team first, and that the team
\* listed first did not always win
C23_Witness ==
    /\ sim_pc = "returned"
    /\ \E i \in DOMAIN LastResult.projected_matchups["East"] :
          LET m == LastResult.projected_matchups["East"][i]
          IN /\ Get(matchup_counts, <<m[1], m[2], "East">>) >= 1
             /\ Get(matchup_counts, <<m[2], m[1], "East">>) >= 1
             /\ m[1] > m[2]
             /\ m[3] < 1000

\* how often the unordered pair of key k was played in the logged trials:
\* round 2 and conference final per conference, cup final over both
Played(k, round) ==
    IF round = 4
    THEN Cardinality({n \in DOMAIN trial_log :
            {trial_log[n].east_trace.conf_champion,
             trial_log[n].west_trace.conf_champion} = {k[1], k[2]}})
    ELSE IF round = 3
    THEN Cardinality({n \in DOMAIN trial_log :
            Range(TraceOf(trial_log[n], k[3]).conf_final_matchup) = {k[1], k[2]}})
    ELSE Cardinality({x \in (DOMAIN trial_log) \X (1..2) :
            Range(TraceOf(trial_log[x[1]], k[3]).r2_matchups[x[2]]) = {k[1], k[2]}})

\* the pairs of a list, and the list is ordered by non-increasing count with
\* every frequency the count divided by N
ListedPairs(L) == {<<L[i][1], L[i][2]>> : i \in DOMAIN L}

ListInOrder(L, round, conf) ==
    /\ \A i \in DOMAIN L :
          L[i][4] = Round3(Played(<<L[i][1], L[i][2], conf>>, round), sim_cfg.n_sims)
    /\ \A i, j \in DOMAIN L :
          i < j => Played(<<L[i][1], L[i][2], conf>>, round)
                       >= Played(<<L[j][1], L[j][2], conf>>, round)
    /\ Cardinality(ListedPairs(L)) = Len(L)

\* C24: a round-2 or conference-final pair is listed if and only if it was
\* played in at least 5% of the N trials, a cup-final pair if and only if in
\* at least 1%; each list is in non-increasing order of count and the
\* frequency of an entry is its count divided by N (rounded to 3 places).
C24_ListThresholds ==
    sim_pc = "returned" =>
        /\ \A conf \in {"East", "West"} :
              /\ ListInOrder(LastResult.r2_matchups[conf], 2, conf)
              /\ ListInOrder(LastResult.conf_final_matchups[conf], 3, conf)
              /\ \A a, b \in TeamCodes(teams) \cup {BYE} :
                    a <= b =>
                      /\ <<a, b>> \in ListedPairs(LastResult.r2_matchups[conf])
                            <=> (/\ Played(<<a, b, conf>>, 2) >= 1
                                 /\ 20 * Played(<<a, b, conf>>, 2) >= sim_cfg.n_sims)
                      /\ <<a, b>> \in ListedPairs(LastResult.conf_final_matchups[conf])
                            <=> (/\ Played(<<a, b, conf>>, 3) >= 1
                                 /\ 20 * Played(<<a, b, conf>>, 3) >= sim_cfg.n_sims)
        /\ ListInOrder(LastResult.cup_final_matchups, 4, "All")
        /\ \A a, b \in TeamCodes(teams) \cup {BYE} :
              a <= b =>
                (<<a, b>> \in ListedPairs(LastResult.cup_final_matchups)
                    <=> (/\ Played(<<a, b, "All">>, 4) >= 1
                         /\ 100 * Played(<<a, b, "All">>, 4) >= sim_cfg.n_sims))
        /\ \A conf \in {"East", "West"} :
              \A L \in {LastResult.r2_matchups[conf], LastResult.conf_final_matchups[conf],
                         LastResult.cup_final_matchups} :
                  \A i \in DOMAIN L : L[i][1] <= L[i][2]

\* C24 as stated: as above, with the frequency of every entry exactly its
\* count divided by N.
C24_AsStated ==
    /\ C24_ListThresholds
    /\ sim_pc = "returned" =>
          /\ \A conf \in {"East", "West"} :
                /\ \A i \in DOMAIN LastResult.r2_matchups[conf] :
                      LET m == LastResult.r2_matchups[conf][i]
                      IN m[4] * sim_cfg.n_sims = 1000 * Played(<<m[1], m[2], conf>>, 2)
                /\ \A i \in DOMAIN LastResult.conf_final_matchups[conf] :
                      LET m == LastResult.conf_final_matchups[conf][i]
                      IN m[4] * sim_cfg.n_sims = 1000 * Played(<<m[1], m[2], conf>>, 3)
          /\ \A i \in DOMAIN LastResult.cup_final_matchups :
                LET m == LastResult.cup_final_matchups[i]
                IN m[4] * sim_cfg.n_sims = 1000 * Played(<<m[1], m[2], "All">>, 4)

\* a returned run in which a round-2 pair, a conference-final pair and a
\* cup-final pair were each played but too rarely to be listed, next to
\* listed pairs, two of them with the same count
C24_Witness ==
    /\ sim_pc = "returned"
    /\ \E conf \in {"East", "West"} :
          /\ \E a, b \in TeamCodes(teams) :
                /\ Played(<<a, b, conf>>, 2) >= 1
                /\ <<a, b>> \notin ListedPairs(LastResult.r2_matchups[conf])
          /\ \E a, b \in TeamCodes(teams) :
                /\ Played(<<a, b, conf>>, 3) >= 1
                /\ <<a, b>> \notin ListedPairs(LastResult.conf_final_matchups[conf])
          /\ Len(LastResult.r2_matchups[conf]) >= 2
    /\ \E a, b \in TeamCodes(teams) :
          /\ a <= b
          /\ Played(<<a, b, "All">>, 4) >= 1
          /\ <<a, b>> \notin ListedPairs(LastResult.cup_final_matchups)
    /\ \E i, j \in DOMAIN LastResult.cup_final_matchups :
          /\ i < j
          /\ LastResult.cup_final_matchups[i][4] = LastResult.cup_final_matchups[j][4]

\* how many of the logged series of the unordered pair of key k the team
\* named first in k won
PlayedWon(k, round) ==
    IF round = 4
    THEN Cardinality({n \in DOMAIN trial_log :
            /\ {trial_log[n].east_trace.conf_champion,
                trial_log[n].west_trace.conf_champion} = {k[1], k[2]}
            /\ trial_log[n].cup_winner = k[1]})
    ELSE IF round = 3
    THEN Cardinality({n \in DOMAIN trial_log :
            /\ Range(TraceOf(trial_log[n], k[3]).conf_final_matchup) = {k[1], k[2]}
            /\ TraceOf(trial_log[n], k[3]).conf_champion = k[1]})
    ELSE Cardinality({x \in (DOMAIN trial_log) \X (1..2) :
            /\ Range(TraceOf(trial_log[x[1]], k[3]).r2_matchups[x[2]]) = {k[1], k[2]}
            /\ TraceOf(trial_log[x[1]], k[3]).r2_winners[x[2]] = k[1]})

TrackerCounts(d, round) ==
    \A k \in DOMAIN d :
        /\ k[1] <= k[2]
        /\ d[k].count = Played(k, round)
        /\ d[k].a_wins = PlayedWon(k, round)
        /\ d[k].a_wins \in 0..d[k].count

\* C25: the round-2, conference-final and cup-final trackers are keyed by
\* the unordered pair with the alphabetically first team first; the count of
\* a key is the number of series played between the two, one per series,
\* the win counter is the number of them that the first team won, and
\* 0 <= wins <= count.
C25_AsStated ==
    /\ TrackerCounts(r2_tracker, 2)
    /\ TrackerCounts(cf_tracker, 3)
    /\ TrackerCounts(cup_final_tracker, 4)

RECURSIVE RngAfter(_, _)
RngAfter(r, n) == IF n = 0 THEN r ELSE RngAfter(RngNext(r), n - 1)

\* the first-round matchups of a trace that were played as a series
PlayedRoundOne(trace) == {i \in DOMAIN trace.r1_matchups : trace.r1_matchups[i][2] # BYE}

\* the bracket of a conference field of 4 to 7 teams
ShortBracket(field, trace) ==
    Len(field) \in 4..7 =>
        /\ Len(trace.r1_matchups) = 4
        /\ \A i \in 1..4 : trace.r1_matchups[i][1] \in TeamCodes(field)
        /\ Cardinality(PlayedRoundOne(trace)) = Len(field) - 4
        /\ \A i \in 1..4 :
              trace.r1_matchups[i][2] = BYE => trace.r1_winners[i] = trace.r1_matchups[i][1]
        /\ BYE \notin Range(trace.r1_winners)
        /\ BYE \notin Range(trace.r2_winners)
        /\ trace.conf_champion # BYE

\* a trial of conferences of at least 4 teams each: the cup winner is a
\* team, and where every series takes one draw the generator has moved by
\* one draw per team (the trial points) and one per series between two teams
ShortTrial(tr, r) ==
    (/\ Len(tr.east_playoff) >= 4
     /\ Len(tr.west_playoff) >= 4
     /\ Len(tr.east_playoff) \in 4..7 \/ Len(tr.west_playoff) \in 4..7) =>
        /\ tr.cup_winner # BYE
        /\ EnhancedDecides(sim_cfg) =>
              tr.rng = RngAfter(r, Len(teams) + Cardinality(PlayedRoundOne(tr.east_trace))
                                      + Cardinality(PlayedRoundOne(tr.west_trace)) + 7)

C28_Step ==
    Len(trial_log') = Len(trial_log) + 1 =>
        /\ ShortBracket(last_trial'.east_playoff, last_trial'.east_trace)
        /\ ShortBracket(last_trial'.west_playoff, last_trial'.west_trace)
        /\ ShortTrial(last_trial', rng)

C11_SimulateReturns ==
    /\ sim_pc # "raised"
    /\ sim_pc = "trials" => sims_done \in 0..sim_cfg.n_sims
    /\ sim_pc = "returned" => (sims_done = sim_cfg.n_sims /\ Len(run_results) >= 1)

\* a returned run of two trials for a league without Western teams: the
\* placeholder stood in the championship final
C11_Witness ==
    /\ sim_pc = "returned"
    /\ sims_done = 2
    /\ teams # <<>>
    /\ \A i \in DOMAIN teams : get_conference(teams[i].team) = "East"
    /\ Get(cup_final_counts, BYE) = 2

-----------------------------------------------------------------------------
(* Claims about training *)

C12_Inv ==
    /\ (sim_pc = "trials" \/ pred_pc = "simulating") => superhuman.is_fitted
    /\ (sims_done > 0 \/ run_results # <<>> \/ monte_carlo_result # <<>>)
           => superhuman.is_fitted
    /\ superhuman.is_fitted => superhuman.fits_returned = fit_calls(use_neural_network)
    /\ superhuman.is_trained => superhuman.is_fitted
    /\ superhuman.trainings <= 1

C12_Step ==
    /\ (pred_pc = "guard" /\ ~superhuman.is_fitted) =>
           /\ pred_pc' = "raised"
           /\ monte_carlo_result' = monte_carlo_result
           /\ run_results' = run_results
           /\ sims_done' = sims_done
           /\ sim_pc' = sim_pc
    /\ (pred_pc # "guard" /\ pred_pc' = "guard" /\ superhuman'.caller = "superhuman")
           => superhuman'.is_trained
    /\ superhuman'.train_calls # superhuman.train_calls => ~superhuman.is_trained

\* C12: no trial runs and no Monte Carlo result exists before the fit of the
\* ensemble has returned; EnsemblePredictor.predict on an unfitted instance
\* raises without running a trial and without changing monte_carlo_result;
\* is_fitted is set only after every fit call of EnsemblePredictor.fit has
\* returned; SuperhumanPredictor.predict reaches the ensemble only once
\* trained, starts no training once trained, and over any sequence of calls
\* at most one training completes.
C12_TrainingBeforeTrials == [](C12_Inv) /\ [][C12_Step]_vars

\* a direct call on the unfitted instance raised, then two calls of
\* SuperhumanPredictor.predict returned after a single training
C12_Witness ==
    /\ pred_pc = "returned"
    /\ superhuman.guard_raises >= 1
    /\ superhuman.trainings = 1
    /\ superhuman.train_calls = 1
    /\ Len(run_results) = 2

-----------------------------------------------------------------------------
(* Claims about predict *)

PredictReturned == pred_pc \in {"ensemble_returned", "returned"}

CupProbs == [i \in DOMAIN results |-> results[i].cup_win_probability]

\* the gated probabilities of the call, recomputed from its inputs
GatedTotal ==
    SumSeq(SubSeq([i \in 1..Len(teams) |->
                      GatedProb(sub_models[i], McCount(monte_carlo_result, teams[i].team),
                                sim_cfg.n_sims, use_neural_network)],
                  1, Len(teams)))

\* the probabilities, all over one denominator, add up to 1
SumsToOne ==
    /\ \A i \in DOMAIN results : CupProbs[i][2] = CupProbs[1][2]
    /\ SumSeq(SubSeq([i \in DOMAIN results |-> CupProbs[i][1]], 1, Len(results)))
           = CupProbs[1][2]

\* C4: for any non-empty list of teams the cup_win_probability values
\* returned by EnsemblePredictor.predict sum to 1, and when the gated
\* probabilities total zero every team receives 1 / (number of teams).
C4_AsStated ==
    (PredictReturned /\ Len(teams) >= 1) =>
        /\ SumsToOne
        /\ GatedTotal = 0 =>
              \A i \in DOMAIN results : CupProbs[i][1] * Len(teams) = CupProbs[i][2]

\* the position in teams of the team of result i
TeamIndex(i) == CHOOSE t \in DOMAIN teams : teams[t].team = results[i].team

\* the blend of the cup estimates of the team at position t, in units of
\* 1 / (100 * n_sims): 0.30 tree + 0.30 neural + 0.40 Monte Carlo with the
\* neural network, 0.40 tree + 0.60 Monte Carlo without; a team without a
\* Monte Carlo probability has the Monte Carlo term 0
BlendOf(t) ==
    LET mc == IF teams[t].team \in DOMAIN monte_carlo_result.cup_probabilities
              THEN monte_carlo_result.cup_probabilities[teams[t].team][1]
              ELSE 0
    IN IF use_neural_network
       THEN 3 * sub_models[t].gb * sim_cfg.n_sims + 3 * sub_models[t].nn * sim_cfg.n_sims
                + 40 * mc
       ELSE 4 * sub_models[t].gb * sim_cfg.n_sims + 60 * mc

\* C26: the probability of a team before normalization is the blend of its
\* cup estimates times min(1, playoff_probability + 0.1), and the gate never
\* increases the blend.  After normalization the numerators of the results
\* are the gated values and their common denominator is the gated total.
C26_GatedBlend ==
    (PredictReturned /\ GatedTotal > 0) =>
        \A i \in DOMAIN results :
            LET t == TeamIndex(i)
                gate == IF sub_models[t].playoff + 1 < 10
                        THEN sub_models[t].playoff + 1 ELSE 10
            IN /\ CupProbs[i][1] = BlendOf(t) * gate
               /\ CupProbs[i][1] <= BlendOf(t) * 10
               /\ CupProbs[i][2] = GatedTotal

\* a returned call with the neural network in which one team passed the
\* gate in full and another, with a positive blend that includes Monte
\* Carlo wins, was cut by it
C26_Witness ==
    /\ PredictReturned
    /\ use_neural_network
    /\ GatedTotal > 0
    /\ \E i, j \in DOMAIN results :
          /\ sub_models[TeamIndex(i)].playoff = 10
          /\ CupProbs[i][1] = BlendOf(TeamIndex(i)) * 10
          /\ CupProbs[i][1] > 0
          /\ sub_models[TeamIndex(j)].playoff < 9
          /\ McCount(monte_carlo_result, results[j].team) > 0
          /\ CupProbs[j][1] < BlendOf(TeamIndex(j)) * 10

\* the estimator gave every team the same 1 / (number of teams)
UniformDefault(probs) ==
    /\ Len(probs) = Len(teams)
    /\ \A i \in DOMAIN probs : probs[i][1] * Len(teams) = probs[i][2]

\* C27: when the tree or the neural cup estimator is untrained (its training
\* was skipped) or raises while predicting, predict still completes and the
\* estimator contributes 1 / league_size for every team, league_size being
\* the number of teams predicted.
C27_AsStated ==
    /\ pred_pc # "raised"
    /\ (pred_pc \in {"proba_nn", "estimated"}
            /\ (~superhuman.cup_predictor.is_fitted \/ superhuman.cup_predictor.model_raises))
           => UniformDefault(superhuman.cup_probs_gb)
    /\ (pred_pc = "estimated" /\ use_neural_network
            /\ (~superhuman.neural_predictor.is_fitted
                    \/ superhuman.neural_predictor.model_raises))
           => UniformDefault(superhuman.cup_probs_nn)

TierCount(tier) == Cardinality({i \in DOMAIN results : results[i].tier = tier})

\* C5: in a league of n >= 20 teams, whatever the strengths (ties
\* included), the tiers hold exactly 4, 8, 8 and n - 20 teams.
C5_AsStated ==
    (PredictReturned /\ Len(teams) >= 20) =>
        /\ \A i \in DOMAIN results :
              results[i].tier \in {"Elite", "Contender", "Bubble", "Longshot"}
        /\ TierCount("Elite") = 4
        /\ TierCount("Contender") = 8
        /\ TierCount("Bubble") = 8
        /\ TierCount("Longshot") = Len(teams) - 20

\* C6: for every returned team the confidence bounds enclose the point
\* estimate, cup_prob_lower <= cup_win_probability <= cup_prob_upper, for
\* every normalized probability, 0 and 1 included.
C6_AsStated ==
    PredictReturned =>
        \A i \in DOMAIN results :
            /\ results[i].cup_prob_lower <= ToUnits(results[i].cup_win_probability)
            /\ ToUnits(results[i].cup_win_probability) <= results[i].cup_prob_upper

\* C8: predict returns one result per input team, in the order of
\* non-increasing championship probability; the strength ranks are exactly
\* 1..N, each once, and a lower rank number never goes to a team of strictly
\* lower composite strength.
C8_OrderAndRanks ==
    pred_pc = "returned" =>
        /\ Len(results) = Len(teams)
        /\ \A c \in TeamCodes(teams) :
              Cardinality({i \in DOMAIN results : results[i].team = c}) = 1
        /\ \A i, j \in DOMAIN results :
              i < j => CupProbs[i][1] * CupProbs[j][2] >= CupProbs[j][1] * CupProbs[i][2]
        /\ \A k \in 1..Len(results) :
              Cardinality({i \in DOMAIN results : results[i].strength_rank = k}) = 1
        /\ \A i, j \in DOMAIN results :
              results[i].strength_rank < results[j].strength_rank =>
                  results[i].composite_strength >= results[j].composite_strength

\* a returned league of 20 or more teams with level strengths, in which the
\* order by probability is not the order by strength
C8_Witness ==
    /\ pred_pc = "returned"
    /\ Len(results) >= 20
    /\ \E i, j \in DOMAIN results :
          /\ i < j
          /\ results[i].strength_rank > results[j].strength_rank
          /\ CupProbs[i][1] > CupProbs[j][1]
    /\ \E i, j \in DOMAIN results :
          /\ i # j
          /\ results[i].composite_strength = results[j].composite_strength

====
